---- MODULE Spec2Model ----
(***************************************************************************)
(* Model of the control plane of omrao07/D-Strategies:                     *)
(*   - execution/oms.py                    (OMS)                           *)
(*   - resilience/self_heal/failover.py    (FailoverManager)               *)
(*   - resilience/self_heal/watchdogs.py   (Watchdog, WatchdogManager)     *)
(*   - orchestration/strategy_manager.py   (Orchestrator)                  *)
(* Each subsystem has its own next-state relation and specification; the   *)
(* variables of the other subsystems stay at their initial values.         *)
(***************************************************************************)
EXTENDS Integers, Sequences, FiniteSets, TLC

VARIABLES
    \* ---- OMS (oms.py) ----
    brokers,        \* OMS.brokers: broker name -> adapter (0 = name not registered)
    orders,         \* OMS.orders: internal id -> OMSOrder (present = FALSE: no entry)
    oid,            \* OMS._oid
    pc,             \* per thread: position inside OMS.submit
    loc,            \* per thread: locals of OMS.submit (req.broker, broker, oms_id, tmp)
    returned,       \* history: internal ids of the OMSOrders returned by submit, in order
    submits,        \* history: number of submit calls that reached broker.submit_order
    lastCall        \* history: the most recent completed OMS call and its outcome

omsVars == <<brokers, orders, oid, pc, loc, returned, submits, lastCall>>

VARIABLES
    \* ---- FailoverManager (failover.py) ----
    max_failures,     \* FailoverManager.max_failures
    has_deactivate,   \* per target: FailoverTarget.deactivate is not None
    active_index,     \* FailoverManager.active_index (1-based position in targets)
    fail_counts,      \* FailoverManager.fail_counts
    f_stop,           \* FailoverManager._stop
    f_thread,         \* FailoverManager._thread and the position of _monitor_loop
    activate_calls,   \* history: per target, number of calls of activate
    deactivate_calls, \* history: per target, number of calls of deactivate
    on,               \* history: per target, the last callback called on it was activate
    polls,            \* history: number of _check_active calls so far
    streak,           \* history: length of the run of unhealthy polls of one target
                      \*          that ends with the most recent poll
    lastPoll          \* history: what the most recent _check_active call saw and did

foVars == <<max_failures, has_deactivate, active_index, fail_counts, f_stop, f_thread,
            activate_calls, deactivate_calls, on, polls, streak, lastPoll>>

VARIABLES
    \* ---- Watchdog, WatchdogManager (watchdogs.py) ----
    w_now,            \* time.time()
    w_timeout,        \* per watchdog: Watchdog.timeout
    last_heartbeat,   \* per watchdog: Watchdog.last_heartbeat
    triggered,        \* per watchdog: Watchdog.triggered
    w_stop,           \* WatchdogManager._stop
    w_thread,         \* WatchdogManager._thread and the position of _loop
    fires,            \* history: per watchdog, number of on_timeout invocations
    heartbeats,       \* history: per watchdog, number of heartbeat() calls
    fires_since_hb,   \* history: on_timeout invocations since the last heartbeat()
    late_checks       \* history: check() calls since the last heartbeat() that ran
                      \*          with more than timeout elapsed since that heartbeat

wdVars == <<w_now, w_timeout, last_heartbeat, triggered, w_stop, w_thread, fires,
            heartbeats, fires_since_hb, late_checks>>

VARIABLES
    \* ---- Orchestrator (strategy_manager.py) ----
    exists,           \* per strategy id: the id is a key of Orchestrator._handles
    horder,           \* the keys of Orchestrator._handles in insertion order
    control_mode,     \* per handle: spec.control_mode
    allow_short,      \* per handle: controller.limits.allow_short
    state,            \* per handle: StrategyHandle.state
    on_error,         \* per handle: StrategyHandle.on_error is set
    calls,            \* number of Orchestrator calls so far; int(time.time()) of a call
    op,               \* the call in progress and the position of its loop
    lastTick,         \* history: the most recent tick_once call
    lastAll           \* history: the most recent load_from_registry, warmup_all or
                      \*          tick_all call

orVars == <<exists, horder, control_mode, allow_short, state, on_error, calls,
            op, lastTick, lastAll>>

VARIABLES
    \* ---- the snapshot file of save_snapshot / load_snapshot ----
    snapshot,         \* the file: whether it exists, and the document in it
    saved,            \* history: the StrategyState of each handle when the file
                      \*          was written
    snap_log          \* history: the save_snapshot, load_snapshot and
                      \*          Orchestrator() calls so far, in order

snVars == <<snapshot, saved, snap_log>>

VARIABLES
    \* ---- a broker adapter that honours client-order-ids ----
    wire              \* history: the requests the adapter received, each with the
                      \*          correlation id its caller had for it

brVars == <<wire>>

VARIABLES
    \* ---- one evaluation of the gate on given inputs ----
    g_in,             \* the inputs: a batch, the committed positions and turnover,
                      \* the control mode and allow_short
    g_out             \* what process_orders, or a whole tick, made of them

gtVars == <<g_in, g_out>>

VARIABLES
    \* ---- one HealthCheck ----
    hc_max_failures,  \* HealthCheck.max_failures
    hc_failures,      \* HealthCheck.failures
    hc_last_ok,       \* HealthCheck.last_ok (0 for None)
    hc_last_fail,     \* HealthCheck.last_fail (0 for None)
    hc_log,           \* history: what each run() returned, in order
    hc_last           \* history: the most recent run() call: its number, what the
                      \*          probe did and how the call ended

hcVars == <<hc_max_failures, hc_failures, hc_last_ok, hc_last_fail, hc_log, hc_last>>

VARIABLES
    \* ---- a producer thread in heartbeat(), the poller thread in check() ----
    hb_pc,            \* the producer's position in Watchdog.heartbeat
    hb_wd,            \* the watchdog whose heartbeat() the producer is in
    ck_pc,            \* the poller's position in Watchdog.check
    ck_wd,            \* the watchdog whose check() the poller is in
    ck_now            \* the local variable now of check (line 66)

wtVars == <<hb_pc, hb_wd, ck_pc, ck_wd, ck_now>>

VARIABLES
    \* ---- _failover() running in the poller thread and in a caller's thread ----
    ff_pc,            \* per thread: its position in FailoverManager._failover
    ff_old,           \* per thread: the local variable old (line 140)
    ff_i,             \* per thread: the loop variable i (line 148), 1-based
    call_log          \* history: the activate and deactivate calls made on the
                      \*          targets, in order, the constructor's included

ffVars == <<ff_pc, ff_old, ff_i, call_log>>

VARIABLES
    \* ---- start() of the two managers, called from several threads ----
    st_pc,            \* per manager and calling thread: its position in start()
    st_thread,        \* per manager: self._thread, the calling thread that created
                      \*              the Thread object (0 for None)
    st_running,       \* per manager: the Thread objects that have been started
    st_raised         \* history: per manager, a start() call ended with the
                      \*          RuntimeError of starting a Thread twice

stVars == <<st_pc, st_thread, st_running, st_raised>>

VARIABLES
    \* ---- the pollers' rounds after stop() ----
    f_late_rounds,    \* history: rounds of FailoverManager._monitor_loop (lines
                      \*          113-114) that ran with the stop flag set
    w_late_rounds     \* history: rounds of WatchdogManager._loop (lines 125-127)
                      \*          that ran with the stop flag set

ltVars == <<f_late_rounds, w_late_rounds>>

VARIABLES
    \* ---- one call of DarkPoolRouter.route (tests/test_dark_pool_router.py) ----
    dp_order,         \* the Order passed to route
    dp_venues,        \* the list of Venues passed to route
    dp_plans,         \* the list of ExecutionPlans route returned
    dp_routed         \* route has returned

dpVars == <<dp_order, dp_venues, dp_plans, dp_routed>>

\* the variables each subsystem leaves alone
notOMS == <<foVars, wdVars, orVars, snVars, brVars, gtVars, hcVars, wtVars, ffVars, stVars, ltVars, dpVars>>
notFailover == <<omsVars, wdVars, orVars, snVars, brVars, gtVars, hcVars, wtVars, ffVars, stVars, dpVars>>
notWatchdog == <<omsVars, foVars, orVars, snVars, brVars, gtVars, hcVars, wtVars, ffVars, stVars, dpVars>>
notOrchestrator == <<omsVars, foVars, wdVars, snVars, brVars, gtVars, hcVars, wtVars, ffVars, stVars, ltVars, dpVars>>
notSnapshot == <<omsVars, foVars, wdVars, brVars, gtVars, hcVars, wtVars, ffVars, stVars, ltVars, dpVars>>
notBroker == <<foVars, wdVars, orVars, snVars, gtVars, hcVars, wtVars, ffVars, stVars, ltVars, dpVars>>
notHealth == <<omsVars, foVars, wdVars, orVars, snVars, brVars, gtVars, wtVars, ffVars, stVars, ltVars, dpVars>>
notWatchdogThreads == <<omsVars, foVars, orVars, snVars, brVars, gtVars, hcVars, ffVars, stVars, ltVars, dpVars>>
notFailoverThreads == <<omsVars, wdVars, orVars, snVars, brVars, gtVars, hcVars, wtVars, stVars, ltVars, dpVars>>
notStartThreads == <<omsVars, foVars, wdVars, orVars, snVars, brVars, gtVars, hcVars, wtVars, ffVars, ltVars, dpVars>>
notRouter == <<omsVars, foVars, wdVars, orVars, snVars, brVars, gtVars, hcVars, wtVars, ffVars, stVars, ltVars>>
notGate == <<omsVars, foVars, wdVars, orVars, snVars, brVars, hcVars, wtVars, ffVars, stVars, ltVars, dpVars>>

\* ------------------------------------------------------------------------
\* Bounds of the model
\* ------------------------------------------------------------------------
NumThreads == 2
MaxSubmits == 3
NumAdapters == 2
NumTargets == 2
MaxMaxFailures == 3
MaxPolls == 4
MaxTime == 4
MaxTimeout == 2
MaxHeartbeats == 2
MaxChecks == 3
NumHandles == 2
MaxCalls == 3
MaxBatch == 2
MaxSnapOps == 3
MaxPosition == 2
MaxRuns == 5
MaxVenues == 2
MaxLiquidity == 2
MaxQty == 3
MaxPrice == 2

Threads == 1..NumThreads
Adapters == 1..NumAdapters
\* the names brokers are registered under, and the names requests ask for
RegisteredNames == {"paper"}
BrokerNames == {"paper", "ibkr"}
OrderIds == 1..(MaxSubmits + 1)
BrokerStatuses == {"filled", "rejected"}

\* ------------------------------------------------------------------------
\* OMS
\* ------------------------------------------------------------------------
NoOrder == [present |-> FALSE, id |-> 0, broker |-> "", status |-> "", broker_order_id |-> 0,
            via |-> 0]
NoLocals == [broker |-> "", adapter |-> 0, oms_id |-> 0, tmp |-> 0]
\* the last call: its result, the order id it was about (0: none) and what the
\* broker adapter answered ("none": the adapter was not called)
\* adapter, sent: the adapter object that was called (0: none) and the broker
\* order id passed to its cancel_order (0: none)
NoCall == [op |-> "none", result |-> "none", arg |-> 0, answer |-> "none",
           adapter |-> 0, sent |-> 0]
Call(o, r) == [NoCall EXCEPT !.op = o, !.result = r]
CallOn(o, r, id, a) == [NoCall EXCEPT !.op = o, !.result = r, !.arg = id, !.answer = a]
CallTo(o, r, id, a, adapter, sent) ==
    [op |-> o, result |-> r, arg |-> id, answer |-> a, adapter |-> adapter, sent |-> sent]

\* OMS.__init__, lines 65-68
OMSInit ==
    /\ brokers = [b \in BrokerNames |-> 0]
    /\ orders = [i \in OrderIds |-> NoOrder]
    /\ oid = 1
    /\ pc = [t \in Threads |-> "idle"]
    /\ loc = [t \in Threads |-> NoLocals]
    /\ returned = <<>>
    /\ submits = 0
    /\ lastCall = NoCall
    /\ wire = <<>>

\* OMS.register_broker, lines 74-78: self.brokers[name] = broker
register_broker(name, a) ==
    /\ brokers' = [brokers EXCEPT ![name] = a]
    /\ lastCall' = Call("register_broker", "ok")
    /\ UNCHANGED <<orders, oid, pc, loc, returned, submits>>

\* line 85: req.broker not in self.brokers
Unregistered(name) == brokers[name] = 0

\* a faulty submit that allocates the id before it looks the broker up
OidAllocatedBeforeLookup(o) == o + 1

\* lines 85-86: the counter when submit raises the lookup error
OidAfterLookupFailure(o) == o

\* a faulty submit that gives the id back when broker.submit_order raises
OidReleasedOnBrokerError(o) == o - 1

\* line 96: an exception from broker.submit_order leaves submit with the counter
\* as line 91 wrote it (no handler, nothing undone)
OidAfterBrokerError(o) == o

\* a faulty test that takes every order to have a broker order id
HasBrokerIdAlways(order) == TRUE

\* line 123: order.broker_order_id is set
HasBrokerId(order) == order.broker_order_id # 0

\* a faulty counter that is written back without the increment
StuckOid(tmp) == tmp

\* line 91: the value written back by self._oid += 1
IncrementedOid(tmp) == tmp + 1

\* OMS._build_broker_request, lines 183 and 193: client_order_id = oms_id
ClientOrderId(oms_id) == oms_id

\* lines 98-111: the OMSOrder built from the broker's result
NewOrder(oms_id, name, adapter, status, bid) ==
    [present |-> TRUE, id |-> oms_id, broker |-> name, status |-> status,
     broker_order_id |-> bid, via |-> adapter]

\* line 113: self.orders[oms_id] = order
Recorded(book, id, order) == [book EXCEPT ![id] = order]

\* OMS.submit, lines 84-114, called with no other call in progress.
\* raises: broker.submit_order raised; status, bid: the result it returned.
submit(name, raises, status, bid) ==
    /\ \A t \in Threads : pc[t] = "idle"
    /\ submits < MaxSubmits
    /\ IF Unregistered(name)
       THEN /\ lastCall' = Call("submit", "lookup_error")
            /\ oid' = OidAfterLookupFailure(oid)
            /\ UNCHANGED <<orders, returned, submits>>
       ELSE /\ oid' = IF raises THEN OidAfterBrokerError(IncrementedOid(oid))
                           ELSE IncrementedOid(oid)
            /\ submits' = submits + 1
            /\ IF raises
               THEN /\ lastCall' = CallTo("submit", "raised", oid, "raised", brokers[name], 0)
                    /\ UNCHANGED <<orders, returned>>
               ELSE /\ orders' = Recorded(orders, oid,
                                          NewOrder(oid, name, brokers[name], status, bid))
                    /\ returned' = Append(returned, oid)
                    /\ lastCall' = CallTo("submit", "ok", oid, status, brokers[name], 0)
    /\ UNCHANGED <<brokers, pc, loc>>

\* OMS.submit in thread t, lines 85-88: the lookup of req.broker
SubmitLookup(t, name) ==
    /\ pc[t] = "idle"
    /\ submits + Cardinality({u \in Threads : pc[u] # "idle"}) < MaxSubmits
    /\ IF Unregistered(name)
       THEN /\ lastCall' = Call("submit", "lookup_error")
            /\ oid' = OidAfterLookupFailure(oid)
            /\ UNCHANGED <<pc, loc>>
       ELSE /\ pc' = [pc EXCEPT ![t] = "format"]
            /\ loc' = [loc EXCEPT ![t] = [NoLocals EXCEPT !.broker = name,
                                                          !.adapter = brokers[name]]]
            /\ UNCHANGED <<lastCall, oid>>
    /\ UNCHANGED <<brokers, orders, returned, submits>>

\* line 90: oms_id = f"OMS-{self._oid}" (one read of the counter)
SubmitFormatId(t) ==
    /\ pc[t] = "format"
    /\ loc' = [loc EXCEPT ![t].oms_id = oid]
    /\ pc' = [pc EXCEPT ![t] = "load"]
    /\ UNCHANGED <<brokers, orders, oid, returned, submits, lastCall>>

\* line 91, first half of self._oid += 1: the read of the counter
SubmitLoadOid(t) ==
    /\ pc[t] = "load"
    /\ loc' = [loc EXCEPT ![t].tmp = oid]
    /\ pc' = [pc EXCEPT ![t] = "store"]
    /\ UNCHANGED <<brokers, orders, oid, returned, submits, lastCall>>

\* line 91, second half of self._oid += 1: the write of the counter
SubmitStoreOid(t) ==
    /\ pc[t] = "store"
    /\ oid' = IncrementedOid(loc[t].tmp)
    /\ pc' = [pc EXCEPT ![t] = "send"]
    /\ UNCHANGED <<brokers, orders, loc, returned, submits, lastCall>>

\* lines 94-114: build the request, call broker.submit_order, record the order.
\* raises: submit_order raised, the exception propagates and nothing is recorded.
SubmitSend(t, raises, status, bid) ==
    /\ pc[t] = "send"
    /\ submits' = submits + 1
    /\ pc' = [pc EXCEPT ![t] = "idle"]
    /\ loc' = [loc EXCEPT ![t] = NoLocals]
    /\ IF raises
       THEN /\ lastCall' = CallTo("submit", "raised", loc[t].oms_id, "raised",
                                    loc[t].adapter, 0)
            /\ UNCHANGED <<orders, returned>>
       ELSE /\ orders' = Recorded(orders, loc[t].oms_id,
                                  NewOrder(loc[t].oms_id, loc[t].broker, loc[t].adapter, status,
                                           bid))
            /\ returned' = Append(returned, loc[t].oms_id)
            /\ lastCall' = CallTo("submit", "ok", loc[t].oms_id, status, loc[t].adapter, 0)
    /\ UNCHANGED <<brokers, oid>>

\* a faulty cancel that goes to the adapter the order was submitted through
CancelAdapterOfSubmission(order) == order.via

\* line 121: broker = self.brokers[order.broker], the adapter registered under the
\* order's broker name when cancel is called
CancelAdapter(order) == brokers[order.broker]

\* OMS.cancel, lines 116-129. ok is what broker.cancel_order returns.
cancel(id, ok) ==
    /\ \A t \in Threads : pc[t] = "idle"
    /\ IF ~orders[id].present
       THEN /\ lastCall' = CallOn("cancel", "false_unknown", id, "none")
            /\ UNCHANGED orders
       ELSE IF ~HasBrokerId(orders[id])
       THEN /\ lastCall' = CallOn("cancel", "false_no_broker_id", id, "none")
            /\ UNCHANGED orders
       ELSE IF ok
       THEN /\ orders' = [orders EXCEPT ![id].status = "canceled"]
            /\ lastCall' = CallTo("cancel", "true", id, "true", CancelAdapter(orders[id]),
                                    orders[id].broker_order_id)
       ELSE /\ lastCall' = CallTo("cancel", "false_broker", id, "false",
                                    CancelAdapter(orders[id]), orders[id].broker_order_id)
            /\ UNCHANGED orders
    /\ UNCHANGED <<brokers, oid, pc, loc, returned, submits>>

\* the correlation ids callers have for their orders
CorrelationIds == {"k1", "k2"}

\* an OMSOrderRequest, lines 46-54: the only place for a caller's correlation id
\* is metadata
OMSOrderRequest(name, corr) == [broker |-> name, metadata |-> corr]

\* OMS._build_broker_request, lines 163-194: the fields of the broker's request;
\* req.metadata is not read
BrokerRequest(req, oms_id) == [client_order_id |-> ClientOrderId(oms_id)]

\* the adapter's duplicate test: a request whose client-order-id it has seen
Duplicate(w, breq) == \E i \in 1..Len(w) : w[i].client_order_id = breq.client_order_id

\* what the adapter has after broker.submit_order(broker_req), line 96
Received(w, req, breq) ==
    Append(w, [corr |-> req.metadata, client_order_id |-> breq.client_order_id,
               duplicate |-> Duplicate(w, breq)])

\* OMS.submit, lines 84-114, of a request carrying a correlation id, to an adapter
\* that honours client-order-ids
SubmitCorrelated(req, status, bid) ==
    /\ submit(req.broker, FALSE, status, bid)
    /\ wire' = IF Unregistered(req.broker) THEN wire
               ELSE Received(wire, req, BrokerRequest(req, oid))

OMSSubmitCorrelated ==
    /\ \E name \in BrokerNames, corr \in CorrelationIds, status \in BrokerStatuses,
          bid \in 0..1 : SubmitCorrelated(OMSOrderRequest(name, corr), status, bid)
    /\ UNCHANGED notBroker

OMSRegister ==
    /\ \E name \in RegisteredNames, a \in Adapters : register_broker(name, a)
    /\ UNCHANGED notOMS
OMSSubmit ==
    /\ \E name \in BrokerNames, raises \in BOOLEAN, status \in BrokerStatuses,
          bid \in 0..1 : submit(name, raises, status, bid)
    /\ UNCHANGED notOMS
OMSCancel ==
    /\ \E id \in OrderIds, ok \in BOOLEAN : cancel(id, ok)
    /\ UNCHANGED notOMS
OMSSubmitLookup ==
    /\ \E t \in Threads, name \in BrokerNames : SubmitLookup(t, name)
    /\ UNCHANGED notOMS
OMSSubmitFormatId ==
    /\ \E t \in Threads : SubmitFormatId(t)
    /\ UNCHANGED notOMS
OMSSubmitLoadOid ==
    /\ \E t \in Threads : SubmitLoadOid(t)
    /\ UNCHANGED notOMS
OMSSubmitStoreOid ==
    /\ \E t \in Threads : SubmitStoreOid(t)
    /\ UNCHANGED notOMS
OMSSubmitSend ==
    /\ \E t \in Threads, raises \in BOOLEAN, status \in BrokerStatuses, bid \in 0..1 :
            SubmitSend(t, raises, status, bid)
    /\ UNCHANGED notOMS

\* sequential callers: every call runs to its end before the next one starts
OMSNext == OMSRegister \/ OMSSubmit \/ OMSCancel

\* sequential callers whose requests carry correlation ids
OMSBrokerNext == OMSRegister \/ OMSSubmitCorrelated

\* callers in several threads: submit calls interleave
OMSThreadsNext ==
    \/ OMSRegister \/ OMSSubmitLookup \/ OMSSubmitFormatId \/ OMSSubmitLoadOid
    \/ OMSSubmitStoreOid \/ OMSSubmitSend

\* ------------------------------------------------------------------------
\* FailoverManager
\* ------------------------------------------------------------------------
Targets == 1..NumTargets
ProbeOutcomes == {"ok", "fail", "raise"}     \* health_check: True, False, exception
CallOutcomes == {"ok", "raise"}              \* activate / deactivate: returns, raises
NoProbes == [t \in Targets |-> "fail"]
NoActs == [t \in Targets |-> "ok"]
NoPoll == [target |-> 0, healthy |-> FALSE, failover |-> FALSE, probes |-> NoProbes,
           acts |-> NoActs, chosen |-> 0, error |-> FALSE]

\* FailoverManager.__init__, lines 59-80 (a non-empty target list whose first
\* target's activate() returned)
FailoverInit ==
    /\ max_failures \in 1..MaxMaxFailures
    /\ has_deactivate \in [Targets -> BOOLEAN]
    /\ active_index = 1
    /\ fail_counts = [t \in Targets |-> 0]
    /\ f_stop = FALSE
    /\ f_thread = "none"
    /\ activate_calls = [t \in Targets |-> IF t = 1 THEN 1 ELSE 0]
    /\ deactivate_calls = [t \in Targets |-> 0]
    /\ on = [t \in Targets |-> t = 1]
    /\ polls = 0
    /\ streak = 0
    /\ lastPoll = NoPoll

\* FailoverManager.current
current == active_index

\* The scan of _failover, lines 148-159, from position i on: the targets on which
\* activate is called (tried) and the one that becomes active (chosen, 0 if none).
\* A probe that raises, and an activate that raises, are caught by the same
\* except clause and the scan continues.
RECURSIVE Scan(_, _, _, _)
Scan(i, cur, probes, acts) ==
    IF i > NumTargets THEN [chosen |-> 0, tried |-> {}]
    ELSE IF i = cur THEN Scan(i + 1, cur, probes, acts)
    ELSE IF probes[i] = "ok"
         THEN IF acts[i] = "ok"
              THEN [chosen |-> i, tried |-> {i}]
              ELSE LET r == Scan(i + 1, cur, probes, acts)
                   IN  [chosen |-> r.chosen, tried |-> r.tried \cup {i}]
         ELSE Scan(i + 1, cur, probes, acts)

\* a faulty threshold: one failure fewer than max_failures is enough
FailoverDueEarly(count, limit) == count >= limit - 1

\* a faulty threshold: one more failure is needed than max_failures
FailoverDueLate(count, limit) == count > limit

\* line 132: the failure count at which _check_active calls _failover
FailoverDue(count, limit) == count >= limit

\* lines 142-146: old.deactivate is called when the target has one
DeactivateCalled(old) == has_deactivate[old]

\* FailoverManager._failover, lines 139-161, reached from _check_active with the
\* failure count of the active target already incremented to n.
\* Ends by returning (a target was activated) or by raising FailoverError.
Failover(n, probes, acts) ==
    LET old == current
        r == Scan(1, active_index, probes, acts)
        dcalled == DeactivateCalled(old)
    IN  /\ deactivate_calls' =
               [deactivate_calls EXCEPT ![old] = IF dcalled THEN @ + 1 ELSE @]
        /\ activate_calls' =
               [t \in Targets |-> IF t \in r.tried THEN activate_calls[t] + 1
                                                   ELSE activate_calls[t]]
        /\ on' = [t \in Targets |-> IF t \in r.tried THEN TRUE
                                     ELSE IF t = old /\ dcalled THEN FALSE
                                     ELSE on[t]]
        /\ IF r.chosen # 0
           THEN /\ active_index' = r.chosen
                /\ fail_counts' = [fail_counts EXCEPT ![old] = n, ![r.chosen] = 0]
           ELSE /\ active_index' = active_index
                /\ fail_counts' = [fail_counts EXCEPT ![old] = n]
        /\ lastPoll' = [target |-> old, healthy |-> FALSE, failover |-> TRUE,
                        probes |-> probes, acts |-> acts, chosen |-> r.chosen,
                        error |-> r.chosen = 0]

\* FailoverManager._check_active, lines 118-135. probe is the outcome of the active
\* target's health_check; probes and acts are the outcomes the other targets'
\* health_check and activate would give if _failover called them.
CheckActive(probe, probes, acts) ==
    LET active == current
        n == fail_counts[active] + 1
    IN  /\ polls' = polls + 1
        /\ IF probe = "ok"
           THEN /\ fail_counts' = [fail_counts EXCEPT ![active] = 0]
                /\ streak' = 0
                /\ probes = NoProbes /\ acts = NoActs
                /\ lastPoll' = [NoPoll EXCEPT !.target = active, !.healthy = TRUE]
                /\ UNCHANGED <<active_index, activate_calls, deactivate_calls, on>>
           ELSE /\ streak' = IF lastPoll.target = active /\ ~lastPoll.healthy
                                 /\ ~lastPoll.failover
                             THEN streak + 1 ELSE 1
                /\ IF ~FailoverDue(n, max_failures)
                   THEN /\ fail_counts' = [fail_counts EXCEPT ![active] = n]
                        /\ probes = NoProbes /\ acts = NoActs
                        /\ lastPoll' = [NoPoll EXCEPT !.target = active]
                        /\ UNCHANGED <<active_index, activate_calls, deactivate_calls, on>>
                   ELSE Failover(n, probes, acts)

\* What the targets other than the active one answer when _failover scans them
\* (lines 148-159): asked only in a poll that fails over, and activate is called
\* only on a target whose health_check passed.
ScanProbes(probe) ==
    IF probe # "ok" /\ FailoverDue(fail_counts[current] + 1, max_failures)
    THEN {p \in [Targets -> ProbeOutcomes] : p[current] = "fail"}
    ELSE {NoProbes}
ScanActs(probes) ==
    {a \in [Targets -> CallOutcomes] : \A t \in Targets : probes[t] # "ok" => a[t] = "ok"}

\* FailoverManager.start, lines 84-93: a second call finds _thread set and returns
FStart ==
    /\ f_thread' = IF f_thread = "none" THEN "test" ELSE f_thread
    /\ UNCHANGED <<max_failures, has_deactivate, active_index, fail_counts, f_stop,
                   activate_calls, deactivate_calls, on, polls, streak, lastPoll>>
    /\ UNCHANGED ltVars
    /\ UNCHANGED notFailover

\* FailoverManager.stop, lines 97-101 (the join returns after at most one second)
FStop ==
    /\ f_stop' = TRUE
    /\ UNCHANGED <<max_failures, has_deactivate, active_index, fail_counts, f_thread,
                   activate_calls, deactivate_calls, on, polls, streak, lastPoll>>
    /\ UNCHANGED ltVars
    /\ UNCHANGED notFailover

\* a faulty loop that does not look at _stop
FLoopIgnoresStop(stop) == "sleep"

\* line 112: while not self._stop
FAfterLoopTest(stop) == IF stop THEN "exited" ELSE "sleep"

\* _monitor_loop, line 112: the loop test
FLoopTest ==
    /\ f_thread = "test"
    /\ f_thread' = FAfterLoopTest(f_stop)
    /\ UNCHANGED <<max_failures, has_deactivate, active_index, fail_counts, f_stop,
                   activate_calls, deactivate_calls, on, polls, streak, lastPoll>>
    /\ UNCHANGED ltVars
    /\ UNCHANGED notFailover

\* a faulty loop that catches the FailoverError and goes on polling
ThreadSurvivesError(error) == "test"

\* lines 112-114: where the poller thread is after _check_active: back at the loop
\* test, or ended by the FailoverError that nothing in _monitor_loop catches
ThreadAfterPoll(error) == IF error THEN "dead" ELSE "test"

\* _monitor_loop, lines 113-114: the sleep ends and _check_active runs; a
\* FailoverError leaves the loop and ends the thread.
FPoll ==
    /\ f_thread = "sleep"
    /\ polls < MaxPolls
    /\ \E probe \in ProbeOutcomes :
          \E probes \in ScanProbes(probe) :
              \E acts \in ScanActs(probes) :
                  /\ CheckActive(probe, probes, acts)
                  /\ f_thread' = ThreadAfterPoll(lastPoll'.error)
    /\ UNCHANGED <<max_failures, has_deactivate, f_stop>>
    /\ f_late_rounds' = IF f_stop THEN f_late_rounds + 1 ELSE f_late_rounds
    /\ UNCHANGED w_late_rounds
    /\ UNCHANGED notFailover

FailoverNext == FStart \/ FStop \/ FLoopTest \/ FPoll

\* ------------------------------------------------------------------------
\* FailoverManager._failover, statement by statement, in two threads: the poller
\* (from _check_active, line 135) and a thread that triggers a failover itself.
\* The method takes no lock, so the threads can switch between any two statements.
\* ------------------------------------------------------------------------
FThreads == {"poller", "caller"}

\* no _failover call is in progress; activate was called on the first target by
\* the constructor (line 79)
FailoverThreadsIdle ==
    /\ ff_pc = [t \in FThreads |-> "idle"]
    /\ ff_old = [t \in FThreads |-> 0]
    /\ ff_i = [t \in FThreads |-> 0]
    /\ call_log = <<[op |-> "activate", target |-> 1]>>

\* what _failover leaves alone in every step
FfFrame == <<max_failures, has_deactivate, f_stop, f_thread, polls, streak, lastPoll>>

\* line 140: old = self.current()
FfEnter(t) ==
    /\ ff_pc[t] = "idle"
    /\ ff_old' = [ff_old EXCEPT ![t] = current]
    /\ ff_pc' = [ff_pc EXCEPT ![t] = "deactivate"]
    /\ UNCHANGED <<active_index, fail_counts, activate_calls, deactivate_calls, on,
                   ff_i, call_log>>

\* lines 142-146: old.deactivate() if the target has one; an exception of it is
\* swallowed
FfDeactivate(t) ==
    /\ ff_pc[t] = "deactivate"
    /\ IF DeactivateCalled(ff_old[t])
       THEN /\ deactivate_calls' = [deactivate_calls EXCEPT ![ff_old[t]] = @ + 1]
            /\ on' = [on EXCEPT ![ff_old[t]] = FALSE]
            /\ call_log' = Append(call_log, [op |-> "deactivate", target |-> ff_old[t]])
       ELSE UNCHANGED <<deactivate_calls, on, call_log>>
    /\ ff_i' = [ff_i EXCEPT ![t] = 1]
    /\ ff_pc' = [ff_pc EXCEPT ![t] = "scan"]
    /\ UNCHANGED <<active_index, fail_counts, activate_calls, ff_old>>

\* lines 148-152 and 158-161: the next target of the scan. The active target,
\* read from self.active_index at this moment, is skipped; a probe that fails
\* or raises moves on to the next target; after the last target FailoverError
\* is raised.
FfScan(t) ==
    /\ ff_pc[t] = "scan"
    /\ IF ff_i[t] > NumTargets
       THEN ff_pc' = [ff_pc EXCEPT ![t] = "raised"] /\ UNCHANGED ff_i
       ELSE IF ff_i[t] = active_index
       THEN ff_i' = [ff_i EXCEPT ![t] = @ + 1] /\ UNCHANGED ff_pc
       ELSE \E probe \in ProbeOutcomes :
               IF probe = "ok"
               THEN ff_pc' = [ff_pc EXCEPT ![t] = "activate"] /\ UNCHANGED ff_i
               ELSE ff_i' = [ff_i EXCEPT ![t] = @ + 1] /\ UNCHANGED ff_pc
    /\ UNCHANGED <<active_index, fail_counts, activate_calls, deactivate_calls, on,
                   ff_old, call_log>>

\* line 153: t.activate(); an exception of it is caught at line 158 and the scan
\* moves on
FfActivate(t) ==
    /\ ff_pc[t] = "activate"
    /\ activate_calls' = [activate_calls EXCEPT ![ff_i[t]] = @ + 1]
    /\ on' = [on EXCEPT ![ff_i[t]] = TRUE]
    /\ call_log' = Append(call_log, [op |-> "activate", target |-> ff_i[t]])
    /\ \E act \in CallOutcomes :
          IF act = "ok"
          THEN ff_pc' = [ff_pc EXCEPT ![t] = "store"] /\ UNCHANGED ff_i
          ELSE /\ ff_pc' = [ff_pc EXCEPT ![t] = "scan"]
               /\ ff_i' = [ff_i EXCEPT ![t] = @ + 1]
    /\ UNCHANGED <<active_index, fail_counts, deactivate_calls, ff_old>>

\* lines 154-156: self.active_index = i; self.fail_counts[t.name] = 0; return
FfStore(t) ==
    /\ ff_pc[t] = "store"
    /\ active_index' = ff_i[t]
    /\ fail_counts' = [fail_counts EXCEPT ![ff_i[t]] = 0]
    /\ ff_pc' = [ff_pc EXCEPT ![t] = "returned"]
    /\ UNCHANGED <<activate_calls, deactivate_calls, on, ff_old, ff_i, call_log>>

FEnter == (\E t \in FThreads : FfEnter(t)) /\ UNCHANGED <<FfFrame, notFailoverThreads>>
FDeactivate ==
    (\E t \in FThreads : FfDeactivate(t)) /\ UNCHANGED <<FfFrame, notFailoverThreads>>
FScan == (\E t \in FThreads : FfScan(t)) /\ UNCHANGED <<FfFrame, notFailoverThreads>>
FActivate ==
    (\E t \in FThreads : FfActivate(t)) /\ UNCHANGED <<FfFrame, notFailoverThreads>>
FStore == (\E t \in FThreads : FfStore(t)) /\ UNCHANGED <<FfFrame, notFailoverThreads>>

FailoverThreadsNext == FEnter \/ FDeactivate \/ FScan \/ FActivate \/ FStore

\* ------------------------------------------------------------------------
\* FailoverManager.start and WatchdogManager.start, statement by statement, called
\* from several threads. The two methods are the same code and take no lock.
\* ------------------------------------------------------------------------
Managers == {"FailoverManager", "WatchdogManager"}

\* no start() call is in progress and no poller thread was created
StartThreadsIdle ==
    /\ st_pc = [m \in Managers |-> [c \in Threads |-> "idle"]]
    /\ st_thread = [m \in Managers |-> 0]
    /\ st_running = [m \in Managers |-> {}]
    /\ st_raised = [m \in Managers |-> FALSE]

\* failover.py lines 86-87, watchdogs.py lines 105-106:
\* if self._thread is not None: return
StTest(m, c) ==
    /\ st_pc[m][c] = "idle"
    /\ st_pc' = [st_pc EXCEPT ![m][c] = IF st_thread[m] # 0 THEN "idle" ELSE "tested"]
    /\ UNCHANGED <<st_thread, st_running, st_raised>>

\* failover.py lines 89-92, watchdogs.py lines 108-111:
\* self._thread = threading.Thread(...)
StCreate(m, c) ==
    /\ st_pc[m][c] = "tested"
    /\ st_thread' = [st_thread EXCEPT ![m] = c]
    /\ st_pc' = [st_pc EXCEPT ![m][c] = "created"]
    /\ UNCHANGED <<st_running, st_raised>>

\* failover.py line 93, watchdogs.py line 112: self._thread.start(), on the Thread
\* object self._thread refers to at this moment; starting a Thread a second time
\* raises RuntimeError
StRun(m, c) ==
    /\ st_pc[m][c] = "created"
    /\ st_running' = [st_running EXCEPT ![m] = @ \cup {st_thread[m]}]
    /\ st_raised' = [st_raised EXCEPT ![m] = @ \/ st_thread[m] \in st_running[m]]
    /\ st_pc' = [st_pc EXCEPT ![m][c] = "idle"]
    /\ UNCHANGED st_thread

SStartTest ==
    (\E m \in Managers, c \in Threads : StTest(m, c)) /\ UNCHANGED notStartThreads
SStartCreate ==
    (\E m \in Managers, c \in Threads : StCreate(m, c)) /\ UNCHANGED notStartThreads
SStartRun ==
    (\E m \in Managers, c \in Threads : StRun(m, c)) /\ UNCHANGED notStartThreads

StartThreadsNext == SStartTest \/ SStartCreate \/ SStartRun

\* ------------------------------------------------------------------------
\* Watchdog, WatchdogManager
\* ------------------------------------------------------------------------
Watchdogs == {"data-feed", "engine"}

\* Watchdog.__init__ for every registered watchdog (lines 39-50), at time 0, and
\* WatchdogManager.__init__ (lines 84-88)
WatchdogInit ==
    /\ w_now = 0
    /\ w_timeout \in [Watchdogs -> 1..MaxTimeout]
    /\ last_heartbeat = [w \in Watchdogs |-> 0]
    /\ triggered = [w \in Watchdogs |-> FALSE]
    /\ w_stop = FALSE
    /\ w_thread = "none"
    /\ fires = [w \in Watchdogs |-> 0]
    /\ heartbeats = [w \in Watchdogs |-> 0]
    /\ fires_since_hb = [w \in Watchdogs |-> 0]
    /\ late_checks = [w \in Watchdogs |-> 0]

\* line 67: now - self.last_heartbeat > self.timeout
TimedOut(now, last, timeout) == now - last > timeout

\* a faulty check that does not look at the triggered flag
CheckFiresUnlatched(w) == TimedOut(w_now, last_heartbeat[w], w_timeout[w])

\* Watchdog.check, lines 63-68: whether this call invokes on_timeout
CheckFires(w) == ~triggered[w] /\ TimedOut(w_now, last_heartbeat[w], w_timeout[w])

\* Watchdog.heartbeat, lines 54-57: the value given to the triggered flag
HeartbeatFlag == FALSE

\* Watchdog.heartbeat (and WatchdogManager.heartbeat for a registered name)
heartbeat(w) ==
    /\ heartbeats[w] < MaxHeartbeats
    /\ last_heartbeat' = [last_heartbeat EXCEPT ![w] = w_now]
    /\ triggered' = [triggered EXCEPT ![w] = HeartbeatFlag]
    /\ heartbeats' = [heartbeats EXCEPT ![w] = @ + 1]
    /\ fires_since_hb' = [fires_since_hb EXCEPT ![w] = 0]
    /\ late_checks' = [late_checks EXCEPT ![w] = 0]
    /\ UNCHANGED <<w_now, w_timeout, w_stop, w_thread, fires>>

\* Watchdog.check on every watchdog of the set ws, lines 61-72. An exception of
\* on_timeout is swallowed (lines 69-72) and changes nothing.
CheckAll(ws) ==
    /\ triggered' = [w \in Watchdogs |->
                        IF w \in ws /\ CheckFires(w) THEN TRUE ELSE triggered[w]]
    /\ fires' = [w \in Watchdogs |->
                    IF w \in ws /\ CheckFires(w) THEN fires[w] + 1 ELSE fires[w]]
    /\ fires_since_hb' = [w \in Watchdogs |->
                    IF w \in ws /\ CheckFires(w) THEN fires_since_hb[w] + 1
                                                 ELSE fires_since_hb[w]]
    /\ late_checks' = [w \in Watchdogs |->
                    IF w \in ws /\ w_now - last_heartbeat[w] > w_timeout[w]
                    THEN late_checks[w] + 1 ELSE late_checks[w]]
    /\ UNCHANGED <<w_now, w_timeout, last_heartbeat, w_stop, heartbeats>>

\* a direct call of Watchdog.check
check(w) ==
    /\ late_checks[w] < MaxChecks
    /\ CheckAll({w})
    /\ UNCHANGED w_thread

\* the clock advances
WTick ==
    /\ w_now < MaxTime
    /\ w_now' = w_now + 1
    /\ UNCHANGED <<w_timeout, last_heartbeat, triggered, w_stop, w_thread, fires,
                   heartbeats, fires_since_hb, late_checks>>
    /\ UNCHANGED ltVars
    /\ UNCHANGED notWatchdog

\* WatchdogManager.start, lines 104-112
WStart ==
    /\ w_thread' = IF w_thread = "none" THEN "test" ELSE w_thread
    /\ UNCHANGED <<w_now, w_timeout, last_heartbeat, triggered, w_stop, fires,
                   heartbeats, fires_since_hb, late_checks>>
    /\ UNCHANGED ltVars
    /\ UNCHANGED notWatchdog

\* WatchdogManager.stop, lines 116-119 (the join returns after at most one second)
WStop ==
    /\ w_stop' = TRUE
    /\ UNCHANGED <<w_now, w_timeout, last_heartbeat, triggered, w_thread, fires,
                   heartbeats, fires_since_hb, late_checks>>
    /\ UNCHANGED ltVars
    /\ UNCHANGED notWatchdog

\* a faulty loop that does not look at _stop
WLoopIgnoresStop(stop) == "sleep"

\* line 124: while not self._stop
WAfterLoopTest(stop) == IF stop THEN "exited" ELSE "sleep"

\* WatchdogManager._loop, line 124: the loop test
WLoopTest ==
    /\ w_thread = "test"
    /\ w_thread' = WAfterLoopTest(w_stop)
    /\ UNCHANGED <<w_now, w_timeout, last_heartbeat, triggered, w_stop, fires,
                   heartbeats, fires_since_hb, late_checks>>
    /\ UNCHANGED ltVars
    /\ UNCHANGED notWatchdog

\* WatchdogManager._loop, lines 125-127: the sleep ends and every watchdog is checked
WLoopRound ==
    /\ w_thread = "sleep"
    /\ \A w \in Watchdogs : late_checks[w] < MaxChecks
    /\ CheckAll(Watchdogs)
    /\ w_thread' = "test"
    /\ w_late_rounds' = IF w_stop THEN w_late_rounds + 1 ELSE w_late_rounds
    /\ UNCHANGED f_late_rounds
    /\ UNCHANGED notWatchdog

WHeartbeat ==
    /\ \E w \in Watchdogs : heartbeat(w)
    /\ UNCHANGED ltVars
    /\ UNCHANGED notWatchdog
WCheck ==
    /\ \E w \in Watchdogs : check(w)
    /\ UNCHANGED ltVars
    /\ UNCHANGED notWatchdog

WatchdogNext ==
    WHeartbeat \/ WCheck \/ WTick \/ WStart \/ WStop \/ WLoopTest \/ WLoopRound

\* ------------------------------------------------------------------------
\* Watchdog.heartbeat and Watchdog.check, statement by statement: heartbeat() in
\* a producer thread, check() in the poller thread. Neither method takes a lock,
\* so the threads can switch between any two statements.
\* ------------------------------------------------------------------------
NoWatchdog == "none"

\* no poller has run a round yet
NoLateRounds ==
    /\ f_late_rounds = 0
    /\ w_late_rounds = 0

\* no call of heartbeat() or check() is in progress
WatchdogThreadsIdle ==
    /\ hb_pc = "idle" /\ hb_wd = NoWatchdog
    /\ ck_pc = "idle" /\ ck_wd = NoWatchdog
    /\ ck_now = 0

\* heartbeat, line 56: self.last_heartbeat = time.time()
HbStamp ==
    /\ hb_pc = "idle"
    /\ \E w \in Watchdogs :
          /\ heartbeats[w] < MaxHeartbeats
          /\ last_heartbeat' = [last_heartbeat EXCEPT ![w] = w_now]
          /\ hb_wd' = w
    /\ hb_pc' = "stamped"
    /\ UNCHANGED <<w_now, w_timeout, triggered, w_stop, w_thread, fires, heartbeats,
                   fires_since_hb, late_checks, ck_pc, ck_wd, ck_now>>
    /\ UNCHANGED notWatchdogThreads

\* heartbeat, line 57: self.triggered = False, and the call returns
HbClear ==
    /\ hb_pc = "stamped"
    /\ triggered' = [triggered EXCEPT ![hb_wd] = HeartbeatFlag]
    /\ heartbeats' = [heartbeats EXCEPT ![hb_wd] = @ + 1]
    /\ fires_since_hb' = [fires_since_hb EXCEPT ![hb_wd] = 0]
    /\ late_checks' = [late_checks EXCEPT ![hb_wd] = 0]
    /\ hb_pc' = "idle" /\ hb_wd' = NoWatchdog
    /\ UNCHANGED <<w_now, w_timeout, last_heartbeat, w_stop, w_thread, fires,
                   ck_pc, ck_wd, ck_now>>
    /\ UNCHANGED notWatchdogThreads

\* check, lines 63-64: if self.triggered: return
CkTest ==
    /\ ck_pc = "idle"
    /\ \E w \in Watchdogs :
          /\ late_checks[w] < MaxChecks
          /\ IF triggered[w]
             THEN UNCHANGED <<ck_pc, ck_wd>>
             ELSE ck_pc' = "tested" /\ ck_wd' = w
    /\ UNCHANGED <<wdVars, hb_pc, hb_wd, ck_now>>
    /\ UNCHANGED notWatchdogThreads

\* check, line 66: now = time.time()
CkNow ==
    /\ ck_pc = "tested"
    /\ ck_now' = w_now
    /\ ck_pc' = "timed"
    /\ UNCHANGED <<wdVars, hb_pc, hb_wd, ck_wd>>
    /\ UNCHANGED notWatchdogThreads

\* check, line 67: if now - self.last_heartbeat > self.timeout
CkCompare ==
    /\ ck_pc = "timed"
    /\ IF TimedOut(ck_now, last_heartbeat[ck_wd], w_timeout[ck_wd])
       THEN /\ ck_pc' = "late"
            /\ late_checks' = [late_checks EXCEPT ![ck_wd] = @ + 1]
            /\ UNCHANGED <<ck_wd, ck_now>>
       ELSE /\ ck_pc' = "idle" /\ ck_wd' = NoWatchdog /\ ck_now' = 0
            /\ UNCHANGED late_checks
    /\ UNCHANGED <<w_now, w_timeout, last_heartbeat, triggered, w_stop, w_thread,
                   fires, heartbeats, fires_since_hb, hb_pc, hb_wd>>
    /\ UNCHANGED notWatchdogThreads

\* check, line 68: self.triggered = True
CkSet ==
    /\ ck_pc = "late"
    /\ triggered' = [triggered EXCEPT ![ck_wd] = TRUE]
    /\ ck_pc' = "set"
    /\ UNCHANGED <<w_now, w_timeout, last_heartbeat, w_stop, w_thread, fires,
                   heartbeats, fires_since_hb, late_checks, hb_pc, hb_wd, ck_wd,
                   ck_now>>
    /\ UNCHANGED notWatchdogThreads

\* check, lines 69-72: on_timeout is invoked (an exception of it is swallowed),
\* and the call returns
CkFire ==
    /\ ck_pc = "set"
    /\ fires' = [fires EXCEPT ![ck_wd] = @ + 1]
    /\ fires_since_hb' = [fires_since_hb EXCEPT ![ck_wd] = @ + 1]
    /\ ck_pc' = "idle" /\ ck_wd' = NoWatchdog /\ ck_now' = 0
    /\ UNCHANGED <<w_now, w_timeout, last_heartbeat, triggered, w_stop, w_thread,
                   heartbeats, late_checks, hb_pc, hb_wd>>
    /\ UNCHANGED notWatchdogThreads

\* the clock advances while the two threads run
WtTick ==
    /\ w_now < MaxTime
    /\ w_now' = w_now + 1
    /\ UNCHANGED <<w_timeout, last_heartbeat, triggered, w_stop, w_thread, fires,
                   heartbeats, fires_since_hb, late_checks, wtVars>>
    /\ UNCHANGED notWatchdogThreads

WatchdogThreadsNext ==
    HbStamp \/ HbClear \/ CkTest \/ CkNow \/ CkCompare \/ CkSet \/ CkFire \/ WtTick

\* the two managers' start(), stop() and poller threads, and the clock
ManagersNext ==
    \/ FStart \/ FStop \/ FLoopTest \/ FPoll
    \/ WStart \/ WStop \/ WLoopTest \/ WLoopRound \/ WTick

\* ------------------------------------------------------------------------
\* Mode controller (orchestration/modes.py, not part of the sources at hand)
\* ------------------------------------------------------------------------
Tickers == {<<"EQ", "AAA", "JUN">>, <<"BBB">>}
Sides == {"BUY", "SELL"}
ControlModes == {"AUTO", "SEMI_AUTO", "MANUAL"}
RunModes == {"LIVE", "PAPER", "SIM"}
Notionals == {1, 2}
\* the tickers the strategies of the model trade
ProposedTickers == {<<"EQ", "AAA", "JUN">>}
ProposedOrders == [ticker : ProposedTickers, side : Sides, trade_notional : Notionals]

\* strategy_manager.base_symbol, lines 371-373: the first two "_"-separated parts
base_symbol(ticker) == IF Len(ticker) >= 2 THEN SubSeq(ticker, 1, 2) ELSE <<ticker[1]>>

Bases == {base_symbol(t) : t \in Tickers}

\* RiskLimits of the model's controllers and the SEMI_AUTO single-order threshold
max_name_usd == 2
max_gross_usd == 3
max_daily_turnover_usd == 4
semi_auto_threshold == 1

Abs(x) == IF x < 0 THEN -x ELSE x

RECURSIVE SumAbs(_, _)
SumAbs(f, S) ==
    IF S = {} THEN 0
    ELSE LET x == CHOOSE y \in S : TRUE IN Abs(f[x]) + SumAbs(f, S \ {x})

\* signed notional of an order or a fill (strategy_manager.py line 295)
Signed(side, usd) == IF side = "BUY" THEN usd ELSE -usd

\* a faulty gate without the check on short positions
BucketShortUnchecked(o, st, cm, short) ==
    LET base == base_symbol(o.ticker)
        newpos == st.positions[base] + Signed(o.side, o.trade_notional)
        gross == SumAbs([st.positions EXCEPT ![base] = newpos], Bases)
    IN  IF Abs(newpos) > max_name_usd THEN "rejected"
        ELSE IF gross > max_gross_usd THEN "rejected"
        ELSE IF st.trades_sent_today + o.trade_notional > max_daily_turnover_usd
             THEN "rejected"
        ELSE IF cm = "MANUAL" THEN "queued"
        ELSE IF cm = "SEMI_AUTO" /\ o.trade_notional > semi_auto_threshold THEN "queued"
        ELSE "approved"

\* a faulty gate that treats MANUAL like SEMI_AUTO
BucketManualAsSemiAuto(o, st, cm, short) ==
    LET base == base_symbol(o.ticker)
        newpos == st.positions[base] + Signed(o.side, o.trade_notional)
        gross == SumAbs([st.positions EXCEPT ![base] = newpos], Bases)
    IN  IF ~short /\ newpos < 0 THEN "rejected"
        ELSE IF Abs(newpos) > max_name_usd THEN "rejected"
        ELSE IF gross > max_gross_usd THEN "rejected"
        ELSE IF st.trades_sent_today + o.trade_notional > max_daily_turnover_usd
             THEN "rejected"
        ELSE IF o.trade_notional > semi_auto_threshold THEN "queued"
        ELSE "approved"

\* a faulty gate without the check on the daily turnover
BucketTurnoverUnchecked(o, st, cm, short) ==
    LET base == base_symbol(o.ticker)
        newpos == st.positions[base] + Signed(o.side, o.trade_notional)
        gross == SumAbs([st.positions EXCEPT ![base] = newpos], Bases)
    IN  IF ~short /\ newpos < 0 THEN "rejected"
        ELSE IF Abs(newpos) > max_name_usd THEN "rejected"
        ELSE IF gross > max_gross_usd THEN "rejected"
        ELSE IF cm = "MANUAL" THEN "queued"
        ELSE IF cm = "SEMI_AUTO" /\ o.trade_notional > semi_auto_threshold THEN "queued"
        ELSE "approved"

\* a faulty gate in which a LIVE run applies no SEMI_AUTO threshold
BucketLiveUnthresholded(o, st, cm, short) ==
    LET base == base_symbol(o.ticker)
        newpos == st.positions[base] + Signed(o.side, o.trade_notional)
        gross == SumAbs([st.positions EXCEPT ![base] = newpos], Bases)
    IN  IF ~short /\ newpos < 0 THEN "rejected"
        ELSE IF Abs(newpos) > max_name_usd THEN "rejected"
        ELSE IF gross > max_gross_usd THEN "rejected"
        ELSE IF st.trades_sent_today + o.trade_notional > max_daily_turnover_usd
             THEN "rejected"
        ELSE IF cm = "MANUAL" THEN "queued"
        ELSE IF cm = "SEMI_AUTO" /\ o.trade_notional > semi_auto_threshold
                /\ g_in.rm # "LIVE"
             THEN "queued"
        ELSE "approved"

\* ModeController.process_orders for one order, against the committed position
\* and turnover read through get_position / get_traded_today
Bucket(o, st, cm, short) ==
    LET base == base_symbol(o.ticker)
        newpos == st.positions[base] + Signed(o.side, o.trade_notional)
        gross == SumAbs([st.positions EXCEPT ![base] = newpos], Bases)
    IN  IF ~short /\ newpos < 0 THEN "rejected"
        ELSE IF Abs(newpos) > max_name_usd THEN "rejected"
        ELSE IF gross > max_gross_usd THEN "rejected"
        ELSE IF st.trades_sent_today + o.trade_notional > max_daily_turnover_usd
             THEN "rejected"
        ELSE IF cm = "MANUAL" THEN "queued"
        ELSE IF cm = "SEMI_AUTO" /\ o.trade_notional > semi_auto_threshold THEN "queued"
        ELSE "approved"

\* a faulty collection that evaluates each order against the position and the
\* turnover the orders approved before it in the batch would give
RECURSIVE InBucketProjected(_, _, _, _, _)
InBucketProjected(batch, b, st, cm, short) ==
    IF batch = <<>> THEN <<>>
    ELSE LET o == Head(batch)
             k == Bucket(o, st, cm, short)
             st2 == IF k = "approved"
                    THEN [st EXCEPT !.positions[base_symbol(o.ticker)] =
                                        @ + Signed(o.side, o.trade_notional),
                                    !.trades_sent_today = @ + o.trade_notional]
                    ELSE st
             rest == InBucketProjected(Tail(batch), b, st2, cm, short)
         IN  IF k = b THEN <<o>> \o rest ELSE rest

\* a faulty collection that returns each bucket last order first
RECURSIVE InBucketReversed(_, _, _, _, _)
InBucketReversed(batch, b, st, cm, short) ==
    IF batch = <<>> THEN <<>>
    ELSE LET rest == InBucketReversed(Tail(batch), b, st, cm, short)
         IN  IF Bucket(Head(batch), st, cm, short) = b THEN rest \o <<Head(batch)>>
             ELSE rest

\* the orders of a batch that fall in one bucket, in input order
RECURSIVE InBucket(_, _, _, _, _)
InBucket(batch, b, st, cm, short) ==
    IF batch = <<>> THEN <<>>
    ELSE LET rest == InBucket(Tail(batch), b, st, cm, short)
         IN  IF Bucket(Head(batch), st, cm, short) = b THEN <<Head(batch)>> \o rest
             ELSE rest

\* ModeController.process_orders
process_orders(batch, st, cm, short) ==
    [approved |-> InBucket(batch, "approved", st, cm, short),
     queued   |-> InBucket(batch, "queued", st, cm, short),
     rejected |-> InBucket(batch, "rejected", st, cm, short)]

\* ------------------------------------------------------------------------
\* Orchestrator.tick_once
\* ------------------------------------------------------------------------
Sids == 1..NumHandles

\* StrategyState(), lines 61-70
NewState == [last_ts |-> 0, health |-> "INIT", errors |-> 0, trades_sent_today |-> 0,
             positions |-> [b \in Bases |-> 0], nav |-> 1000000, pnl_day |-> 0,
             pnl_cum |-> 0]

\* a faulty except clause that does not count the error
ErrorStateUncounted(st) == [st EXCEPT !.health = "ERROR"]

\* the except clauses of tick_once and warmup_all: health = "ERROR", errors += 1
ErrorState(st) == [st EXCEPT !.health = "ERROR", !.errors = @ + 1]

\* lines 239-242: the PnL increment and the timestamp of a mark-to-market
MarkedState(st, inc, now) ==
    [st EXCEPT !.pnl_day = @ + inc, !.pnl_cum = @ + inc, !.last_ts = now]

\* lines 261-262: the state a tick with no proposal returns with
ZeroProposalState(st) == st

\* line 306: the state a tick that ran to its end returns with
RunningState(st) == [st EXCEPT !.health = "RUNNING"]

\* a faulty routing that also sends the orders queued for a human
RoutedWithQueued(gated) == gated.approved \o gated.queued

\* a faulty routing that also sends the rejected orders
RoutedWithRejected(gated) == gated.approved \o gated.rejected

\* lines 277-279: the orders handed to router_send or to the paper-fill fallback
RoutedOrders(gated) == gated.approved

\* a faulty fallback that fills the first routed order only
PaperFillsFirstOnly(routed) ==
    IF routed = <<>> THEN <<>>
    ELSE <<[ticker |-> Head(routed).ticker, side |-> Head(routed).side,
            filled_usd |-> Head(routed).trade_notional]>>

\* lines 281-291: the paper-fill fallback fills every routed order at its notional
RECURSIVE PaperFills(_)
PaperFills(routed) ==
    IF routed = <<>> THEN <<>>
    ELSE <<[ticker |-> Head(routed).ticker, side |-> Head(routed).side,
            filled_usd |-> Head(routed).trade_notional]>> \o PaperFills(Tail(routed))

\* the fills a router returns: full fills of all the routed orders ("send_all"),
\* of the first one only ("send_first"), or of none ("send_none")
RouterFills(routed, router) ==
    IF router = "send_all" THEN PaperFills(routed)
    ELSE IF router = "send_first" THEN PaperFills(SubSeq(routed, 1, 1))
    ELSE <<>>

\* a faulty fill that reaches positions but not the turnover counter
ApplyFillPositionOnly(st, f) ==
    [st EXCEPT !.positions[base_symbol(f.ticker)] = @ + Signed(f.side, f.filled_usd)]

\* lines 295-298: one fill applied to positions and trades_sent_today
ApplyFill(st, f) ==
    [st EXCEPT !.positions[base_symbol(f.ticker)] = @ + Signed(f.side, f.filled_usd),
               !.trades_sent_today = @ + Abs(f.filled_usd)]

\* lines 293-298: the loop over the fills
RECURSIVE ApplyFills(_, _)
ApplyFills(st, fills) ==
    IF fills = <<>> THEN st ELSE ApplyFills(ApplyFill(st, Head(fills)), Tail(fills))

\* lines 294-298 with a router whose last row of fills cannot be read (float() of
\* its filled_usd raises at line 295): the rows before it have been applied to
\* positions and trades_sent_today when the exception leaves the loop
AppliedBeforeBadRow(routed) == SubSeq(PaperFills(routed), 1, Len(routed) - 1)

NoGated == [approved |-> <<>>, queued |-> <<>>, rejected |-> <<>>]

\* the stages of tick_once in the order of the code: lines 238, 251, 260, 264,
\* 277-291, 293-298, 300-304
Pipeline == <<"mtm", "signals", "propose", "gate", "route", "fill", "apply_fills">>

\* the stages entered by a tick that gets as far as the k-th stage
StagesUpTo(k) == SubSeq(Pipeline, 1, k)

NoResult == [outcome |-> "error", failed |-> "", stages |-> <<>>, gated |-> NoGated,
             routed |-> <<>>, fills |-> <<>>]

\* tick_once from line 275 on: routing and fills, for a batch gated into gated
\* when the state is st1
AfterGate(st1, gated, inp) ==
    LET base == [state |-> st1] @@ [NoResult EXCEPT !.gated = gated]
        routed == RoutedOrders(gated)
        fills == IF inp.router = "none" THEN PaperFills(routed)
                 ELSE RouterFills(routed, inp.router)
    IN  IF routed = <<>>
        THEN [base EXCEPT !.state = RunningState(st1), !.outcome = "ok",
                          !.stages = StagesUpTo(4)]
        ELSE IF inp.router = "raise"
        THEN [base EXCEPT !.outcome = "raised", !.failed = "route", !.routed = routed,
                          !.stages = StagesUpTo(5)]
        ELSE IF inp.router = "bad"
        THEN [base EXCEPT !.outcome = "raised", !.failed = "fill", !.routed = routed,
                          !.stages = StagesUpTo(6)]
        ELSE IF inp.router = "bad_last"
        THEN [base EXCEPT !.state = ApplyFills(st1, AppliedBeforeBadRow(routed)),
                          !.outcome = "raised", !.failed = "fill", !.routed = routed,
                          !.fills = AppliedBeforeBadRow(routed),
                          !.stages = StagesUpTo(6)]
        ELSE IF fills = <<>>
        THEN [base EXCEPT !.state = RunningState(st1), !.outcome = "ok",
                          !.routed = routed, !.stages = StagesUpTo(5)]
        ELSE [base EXCEPT !.state = RunningState(ApplyFills(st1, fills)),
                          !.outcome = "ok", !.routed = routed, !.fills = fills,
                          !.stages = StagesUpTo(7)]

\* What one tick_once call does to a handle's state st and how it ends:
\*   outcome "error"   an error result {"error": ...} is returned (failed: the stage)
\*           "zero"    the result of a tick without proposals is returned (line 262)
\*           "ok"      the full result is returned (lines 308-316)
\*           "raised"  an exception leaves tick_once (failed: the stage)
\* stages lists the stages entered, in the order the code enters them.
\* view is the StrategyState the controller reads through its accessors.
TickResult(st, view, cm, short, now, inp) ==
    LET st1 == MarkedState(st, inp.inc, now)
    IN  IF inp.mtm_raises
        THEN [state |-> ErrorState(st)]
             @@ [NoResult EXCEPT !.failed = "mtm", !.stages = StagesUpTo(1)]
        ELSE IF inp.sig_raises
        THEN [state |-> ErrorState(st1)]
             @@ [NoResult EXCEPT !.failed = "signals", !.stages = StagesUpTo(2)]
        ELSE IF inp.prop_raises
        THEN [state |-> ErrorState(st1)]
             @@ [NoResult EXCEPT !.failed = "propose", !.stages = StagesUpTo(3)]
        ELSE IF inp.batch = <<>>
        THEN [state |-> ZeroProposalState(st1)]
             @@ [NoResult EXCEPT !.outcome = "zero", !.stages = StagesUpTo(3)]
        ELSE IF inp.gate_raises
        THEN [state |-> ErrorState(st1)]
             @@ [NoResult EXCEPT !.failed = "gate", !.stages = StagesUpTo(4)]
        ELSE CHOOSE r \in {AfterGate(st1, g, inp) :
                               g \in {process_orders(inp.batch, view, cm, short)}} : TRUE

\* ------------------------------------------------------------------------
\* Orchestrator: inputs of a tick
\* ------------------------------------------------------------------------
PnlIncs == {1}
\* default_limits.allow_short of the load_from_registry calls
ShortInputs == {FALSE}
Batches == UNION {[1..n -> ProposedOrders] : n \in 0..MaxBatch}
NoInput == [mtm_raises |-> FALSE, inc |-> 0, sig_raises |-> FALSE, prop_raises |-> FALSE,
            batch |-> <<>>, gate_raises |-> FALSE, router |-> "none"]

\* what the adapter and the controller do during a tick that does not reach the
\* routing of a non-empty batch
EarlyInputs ==
    {[NoInput EXCEPT !.mtm_raises = TRUE]}
    \cup {[NoInput EXCEPT !.inc = i, !.sig_raises = TRUE] : i \in PnlIncs}
    \cup {[NoInput EXCEPT !.inc = i, !.prop_raises = TRUE] : i \in PnlIncs}
    \cup {[NoInput EXCEPT !.inc = i] : i \in PnlIncs}
    \cup {[NoInput EXCEPT !.inc = i, !.batch = b, !.gate_raises = TRUE] :
              i \in PnlIncs, b \in [1..1 -> ProposedOrders]}

\* ticks of a call without router_send: the paper-fill fallback
PaperInputs ==
    EarlyInputs
    \cup {[NoInput EXCEPT !.inc = i, !.batch = b] : i \in PnlIncs, b \in Batches \ {<<>>}}

\* ticks of a call with router_send: the router raises, returns rows without a
\* filled_usd column ("bad"), returns rows the last of which has no readable
\* filled_usd ("bad_last"), or returns fills
RouterInputs ==
    EarlyInputs
    \cup {[NoInput EXCEPT !.inc = i, !.batch = b, !.router = r] :
              i \in PnlIncs, b \in Batches \ {<<>>},
              r \in {"raise", "bad", "bad_last", "send_all", "send_first", "send_none"}}

TickInputs(with_router) == IF with_router THEN RouterInputs ELSE PaperInputs

\* ------------------------------------------------------------------------
\* Orchestrator: calls
\* ------------------------------------------------------------------------
Idle == [kind |-> "idle", rest |-> <<>>, router |-> FALSE, short |-> FALSE]
NoTick == [at |-> 0, sid |-> 0, outcome |-> "none", failed |-> "", stages |-> <<>>,
           approved |-> <<>>, routed |-> <<>>, fills |-> <<>>]
\* over: the rows or handles the call loops over; done: those whose iteration
\* was run; failed: those whose build, warmup or tick raised; hooked: those whose
\* on_error hook was invoked
NoAll == [kind |-> "none", over |-> <<>>, done |-> <<>>, failed |-> <<>>,
          hooked |-> <<>>, outcome |-> "none"]

\* Orchestrator.__init__, lines 128-131
OrchestratorInit ==
    /\ exists = [h \in Sids |-> FALSE]
    /\ horder = <<>>
    /\ control_mode = [h \in Sids |-> "SEMI_AUTO"]
    /\ allow_short = [h \in Sids |-> FALSE]
    /\ state = [h \in Sids |-> NewState]
    /\ on_error = [h \in Sids |-> FALSE]
    /\ calls = 0
    /\ op = Idle
    /\ lastTick = NoTick
    /\ lastAll = NoAll

\* the rows of the registry that survive the filters, in registry order
RECURSIVE Rows(_, _)
Rows(S, i) ==
    IF i > NumHandles THEN <<>>
    ELSE (IF i \in S THEN <<i>> ELSE <<>>) \o Rows(S, i + 1)

InOrder(h) == \E i \in 1..Len(horder) : horder[i] = h

\* load_from_registry, lines 144-164: the filtered rows; no row: lines 181-182
LoadStart(S, short) ==
    /\ op.kind = "idle" /\ calls < MaxCalls
    /\ calls' = calls + 1
    /\ IF S = {}
       THEN /\ op' = Idle
            /\ lastAll' = [NoAll EXCEPT !.kind = "load", !.outcome = "returned"]
       ELSE /\ op' = [kind |-> "load", rest |-> Rows(S, 1), router |-> FALSE,
                      short |-> short]
            /\ lastAll' = [NoAll EXCEPT !.kind = "load", !.over = Rows(S, 1),
                                         !.outcome = "running"]
    /\ UNCHANGED <<exists, horder, control_mode, allow_short, state, on_error,
                   lastTick>>

\* the rows still to be loaded after a row whose _build_handle raised: none, the
\* exception leaves load_from_registry at line 178
AfterBuildFailure(rest) == <<>>

\* load_from_registry, lines 166-182, one iteration of the loop over the rows.
\* built = FALSE: _build_handle raised (_import_obj or the adapter constructor).
LoadStep(built, cm) ==
    /\ op.kind = "load"
    /\ LET h == Head(op.rest)
           rest == IF built THEN Tail(op.rest) ELSE AfterBuildFailure(Tail(op.rest))
       IN  /\ IF built
              THEN /\ exists' = [exists EXCEPT ![h] = TRUE]
                   /\ horder' = IF InOrder(h) THEN horder ELSE Append(horder, h)
                   /\ control_mode' = [control_mode EXCEPT ![h] = cm]
                   /\ allow_short' = [allow_short EXCEPT ![h] = op.short]
                   /\ state' = [state EXCEPT ![h] = NewState]
                   /\ on_error' = [on_error EXCEPT ![h] = FALSE]
              ELSE UNCHANGED <<exists, horder, control_mode, allow_short,
                               state, on_error>>
           /\ op' = IF rest = <<>> THEN Idle ELSE [op EXCEPT !.rest = rest]
           /\ lastAll' = [lastAll EXCEPT
                  !.done = IF built THEN Append(@, h) ELSE @,
                  !.failed = IF built THEN @ ELSE Append(@, h),
                  !.outcome = IF ~built THEN "raised"
                              ELSE IF rest = <<>> THEN "returned" ELSE "running"]
    /\ UNCHANGED <<calls, lastTick>>

\* set_hooks(sid, on_error=...), lines 350-362
SetHooks(h) ==
    /\ op.kind = "idle" /\ calls < MaxCalls /\ exists[h]
    /\ calls' = calls + 1
    /\ on_error' = [on_error EXCEPT ![h] = TRUE]
    /\ UNCHANGED <<exists, horder, control_mode, allow_short, state, op, lastTick,
                   lastAll>>

\* warmup_all, line 220: the loop over the handles starts; no handle: it returns
WarmupStart ==
    /\ op.kind = "idle" /\ calls < MaxCalls
    /\ calls' = calls + 1
    /\ op' = IF horder = <<>> THEN Idle ELSE [Idle EXCEPT !.kind = "warmup", !.rest = horder]
    /\ lastAll' = [NoAll EXCEPT !.kind = "warmup", !.over = horder,
                       !.outcome = IF horder = <<>> THEN "returned" ELSE "running"]
    /\ UNCHANGED <<exists, horder, control_mode, allow_short, state, on_error,
                   lastTick>>

\* lines 222-223: the state after a warmup that returned
WarmedState(st) == [st EXCEPT !.health = "WARMED"]

\* lines 229-230: the handles still to be warmed up after on_error raised inside
\* the except clause: none, the exception leaves warmup_all
AfterHookFailure(rest) == <<>>

\* warmup_all, lines 220-230, one iteration of the loop.
\* raises: adapter.warmup() raised; hook_raises: the on_error hook raised.
WarmupStep(raises, hook_raises) ==
    /\ op.kind = "warmup"
    /\ LET h == Head(op.rest)
           hook == raises /\ on_error[h]
           rest == IF hook /\ hook_raises THEN AfterHookFailure(Tail(op.rest))
                   ELSE Tail(op.rest)
       IN  /\ hook_raises => hook
           /\ state' = [state EXCEPT ![h] = IF raises THEN ErrorState(@)
                                                      ELSE WarmedState(@)]
           /\ op' = IF rest = <<>> THEN Idle ELSE [op EXCEPT !.rest = rest]
           /\ lastAll' = [lastAll EXCEPT
                  !.done = Append(@, h),
                  !.failed = IF raises THEN Append(@, h) ELSE @,
                  !.hooked = IF hook THEN Append(@, h) ELSE @,
                  !.outcome = IF hook /\ hook_raises THEN "raised"
                              ELSE IF rest = <<>> THEN "returned" ELSE "running"]
    /\ UNCHANGED <<exists, horder, control_mode, allow_short, on_error, calls,
                   lastTick>>

\* a faulty binding: the accessors of every controller read the first handle
AccessorLateBound(h) == 1

\* lines 196-197: the handle whose state the accessors of h's controller read;
\* sid=spec.id is bound as a default argument when the lambdas are built
AccessorSid(h) == h

\* the effect of one tick_once call on handle h, at time now
Tick(h, now, inp) ==
    \E r \in {TickResult(state[h], state[AccessorSid(h)], control_mode[h],
                          allow_short[h], now, inp)} :
        /\ state' = [state EXCEPT ![h] = r.state]
        /\ lastTick' = [at |-> now, sid |-> h, outcome |-> r.outcome,
                        failed |-> r.failed, stages |-> r.stages,
                        approved |-> r.gated.approved, routed |-> r.routed,
                        fills |-> r.fills]

\* Orchestrator.tick_once, lines 232-316
tick_once(h, with_router, inp) ==
    /\ op.kind = "idle" /\ calls < MaxCalls /\ exists[h]
    /\ calls' = calls + 1
    /\ Tick(h, calls + 1, inp)
    /\ UNCHANGED <<exists, horder, control_mode, allow_short, on_error, op,
                   lastAll>>

\* tick_all, line 319: the comprehension over the handles starts
TickAllStart(with_router) ==
    /\ op.kind = "idle" /\ calls < MaxCalls
    /\ calls' = calls + 1
    /\ op' = IF horder = <<>> THEN Idle
             ELSE [Idle EXCEPT !.kind = "tick_all", !.rest = horder,
                               !.router = with_router]
    /\ lastAll' = [NoAll EXCEPT !.kind = "tick_all", !.over = horder,
                       !.outcome = IF horder = <<>> THEN "returned" ELSE "running"]
    /\ UNCHANGED <<exists, horder, control_mode, allow_short, state, on_error,
                   lastTick>>

\* line 319: the handles still to be ticked after a tick_once call that raised:
\* none, the exception leaves the comprehension and tick_all
AfterTickRaised(rest) == <<>>

\* tick_all, line 319, one element of the comprehension
TickAllStep(inp) ==
    /\ op.kind = "tick_all"
    /\ LET h == Head(op.rest)
       IN  /\ Tick(h, calls, inp)
           /\ LET raised == lastTick'.outcome = "raised"
                  rest == IF raised THEN AfterTickRaised(Tail(op.rest)) ELSE Tail(op.rest)
              IN  /\ op' = IF rest = <<>> THEN Idle ELSE [op EXCEPT !.rest = rest]
                  /\ lastAll' = [lastAll EXCEPT
                         !.done = Append(@, h),
                         !.failed = IF raised THEN Append(@, h) ELSE @,
                         !.outcome = IF raised THEN "raised"
                                     ELSE IF rest = <<>> THEN "returned" ELSE "running"]
    /\ UNCHANGED <<exists, horder, control_mode, allow_short, on_error, calls>>

OLoadStart ==
    /\ \E S \in SUBSET Sids, short \in ShortInputs : LoadStart(S, short)
    /\ UNCHANGED notOrchestrator
OLoadStep ==
    /\ \E built \in BOOLEAN, cm \in ControlModes : LoadStep(built, cm)
    /\ UNCHANGED notOrchestrator
OSetHooks ==
    /\ \E h \in Sids : SetHooks(h)
    /\ UNCHANGED notOrchestrator
OWarmupStart ==
    /\ WarmupStart
    /\ UNCHANGED notOrchestrator
OWarmupStep ==
    /\ \E raises \in BOOLEAN, hook_raises \in BOOLEAN : WarmupStep(raises, hook_raises)
    /\ UNCHANGED notOrchestrator
OTickOnce ==
    /\ \E h \in Sids, with_router \in BOOLEAN :
            \E inp \in TickInputs(with_router) : tick_once(h, with_router, inp)
    /\ UNCHANGED notOrchestrator
OTickAllStart ==
    /\ \E with_router \in BOOLEAN : TickAllStart(with_router)
    /\ UNCHANGED notOrchestrator
OTickAllStep ==
    /\ \E inp \in TickInputs(op.router) : TickAllStep(inp)
    /\ UNCHANGED notOrchestrator

\* ------------------------------------------------------------------------
\* Orchestrator: snapshots
\* ------------------------------------------------------------------------
StateFields == {"last_ts", "health", "errors", "trades_sent_today", "positions", "nav",
                "pnl_day", "pnl_cum"}

\* lines 326-335: asdict(h.state) written as a JSON object: the set of its
\* key/value pairs, the positions dict a nested object
StateDoc(st) ==
    {<<f, st[f]>> : f \in StateFields \ {"positions"}}
    \cup {<<"positions", {<<b, st.positions[b]>> : b \in DOMAIN st.positions}>>}

\* the value of key k in a JSON object, dflt when the key is missing
Lookup(items, k, dflt) ==
    IF \E x \in items : x[1] = k THEN (CHOOSE x \in items : x[1] = k)[2] ELSE dflt

\* a faulty restore that keeps the health of the new object
StateFromDocWithoutHealth(items) ==
    [f \in StateFields |->
        IF f = "positions"
        THEN [b \in Bases |-> Lookup(Lookup(items, "positions", {}), b, 0)]
        ELSE IF f = "health" THEN NewState[f]
        ELSE Lookup(items, f, NewState[f])]

\* line 346: StrategyState(**d.get("state", {})): every field from its key, the
\* dataclass default for a key the object does not have
StateFromDoc(items) ==
    [f \in StateFields |->
        IF f = "positions"
        THEN [b \in Bases |-> Lookup(Lookup(items, "positions", {}), b, 0)]
        ELSE Lookup(items, f, NewState[f])]

\* lines 326-333: the document, one entry {spec, state, control} per handle
SnapshotDoc ==
    [h \in {x \in Sids : exists[x]} |->
        [spec |-> [id |-> h, control_mode |-> control_mode[h]],
         state |-> StateDoc(state[h]),
         control |-> [control_mode |-> control_mode[h], allow_short |-> allow_short[h]]]]

NoSnapshot == [written |-> FALSE, doc |-> <<>>]
NoSaved == [has |-> [h \in Sids |-> FALSE], st |-> [h \in Sids |-> NewState]]

SnapshotInit ==
    /\ snapshot = NoSnapshot
    /\ saved = NoSaved
    /\ snap_log = <<>>

\* Orchestrator.save_snapshot, lines 323-336
save_snapshot ==
    /\ op.kind = "idle" /\ Len(snap_log) < MaxSnapOps
    /\ snapshot' = [written |-> TRUE, doc |-> SnapshotDoc]
    /\ saved' = [has |-> exists, st |-> [h \in Sids |-> IF exists[h] THEN state[h]
                                                                    ELSE NewState]]
    /\ snap_log' = Append(snap_log, "save")
    /\ UNCHANGED orVars

\* a faulty restore that creates a handle for every id of the snapshot
HandlesWithSnapshotIds(ex, doc) == [h \in Sids |-> ex[h] \/ h \in DOMAIN doc]

\* lines 344-346: the handles after a restore: the ones there were before
HandlesAfterRestore(ex, doc) == ex

\* lines 344-346: the handles whose state a restore replaces
Restored(doc) == {h \in DOMAIN doc : exists[h]}

\* Orchestrator.load_snapshot, lines 338-346; no file: lines 340-341
load_snapshot ==
    /\ op.kind = "idle" /\ Len(snap_log) < MaxSnapOps
    /\ snap_log' = Append(snap_log, "load")
    /\ exists' = IF snapshot.written THEN HandlesAfterRestore(exists, snapshot.doc)
                 ELSE exists
    /\ state' = IF snapshot.written
                THEN [h \in Sids |-> IF h \in Restored(snapshot.doc)
                                     THEN StateFromDoc(snapshot.doc[h].state)
                                     ELSE state[h]]
                ELSE state
    /\ UNCHANGED <<horder, control_mode, allow_short, on_error, calls, op, lastTick,
                   lastAll, snapshot, saved>>

\* Orchestrator(), lines 128-131: a freshly constructed orchestrator takes the
\* place of the old one; the snapshot file stays
NewOrchestrator ==
    /\ op.kind = "idle" /\ Len(snap_log) < MaxSnapOps
    /\ snap_log' = Append(snap_log, "new")
    /\ exists' = [h \in Sids |-> FALSE]
    /\ horder' = <<>>
    /\ control_mode' = [h \in Sids |-> "SEMI_AUTO"]
    /\ allow_short' = [h \in Sids |-> FALSE]
    /\ state' = [h \in Sids |-> NewState]
    /\ on_error' = [h \in Sids |-> FALSE]
    /\ lastTick' = NoTick
    /\ lastAll' = NoAll
    /\ UNCHANGED <<calls, op, snapshot, saved>>

OSaveSnapshot ==
    /\ save_snapshot
    /\ UNCHANGED notSnapshot
OLoadSnapshot ==
    /\ load_snapshot
    /\ UNCHANGED notSnapshot
ONewOrchestrator ==
    /\ NewOrchestrator
    /\ UNCHANGED notSnapshot
\* the ticks between snapshots: through the paper-fill fallback, one order at most,
\* failing in mark_to_market or not at all
SnapshotTickInputs ==
    {inp \in PaperInputs : /\ Len(inp.batch) <= 1
                            /\ ~inp.sig_raises /\ ~inp.prop_raises /\ ~inp.gate_raises}
OTickPaper ==
    /\ \E h \in Sids : \E inp \in SnapshotTickInputs : tick_once(h, FALSE, inp)
    /\ UNCHANGED notOrchestrator

OrchestratorNext ==
    \/ OLoadStart \/ OLoadStep \/ OSetHooks \/ OWarmupStart \/ OWarmupStep
    \/ OTickOnce \/ OTickAllStart \/ OTickAllStep

\* ------------------------------------------------------------------------
\* The gate on given inputs
\* ------------------------------------------------------------------------
NoGateInput == [batch |-> <<>>, positions |-> [b \in Bases |-> 0], traded |-> 0,
                rm |-> "PAPER", cm |-> "SEMI_AUTO", short |-> FALSE]
NoGateOutput == [kind |-> "none", gated |-> NoGated, fills |-> <<>>, state |-> NewState]

\* the committed positions and turnover a handle can have when its tick starts,
\* the run mode, control mode and limits its controller was built with (lines
\* 193-200), and the batch propose_trades returns
GateInputs ==
    [batch : Batches, positions : [Bases -> (-MaxPosition)..MaxPosition],
     traded : 0..max_daily_turnover_usd, rm : RunModes, cm : ControlModes,
     short : BOOLEAN]

\* the StrategyState get_position and get_traded_today read, lines 211-215
GateState(inp) ==
    [NewState EXCEPT !.positions = inp.positions, !.trades_sent_today = inp.traded]

GateDefault ==
    /\ g_in = NoGateInput
    /\ g_out = NoGateOutput

\* line 264: gated = h.controller.process_orders(proposed). The controller holds
\* no reference to the StrategyState: it is built with the two accessors, which
\* return floats (lines 196-197, 211-215), so the state after the call is the
\* state before it.
GateProcess ==
    /\ g_out.kind = "none"
    /\ g_out' = [NoGateOutput EXCEPT
                    !.kind = "gated",
                    !.state = GateState(g_in),
                    !.gated = process_orders(g_in.batch, GateState(g_in), g_in.cm,
                                             g_in.short)]
    /\ UNCHANGED g_in

\* tick_once, lines 232-316, on the same inputs, through the paper-fill fallback
GateTick ==
    /\ g_out.kind = "none"
    /\ \E r \in {TickResult(GateState(g_in), GateState(g_in), g_in.cm, g_in.short, 1,
                             [NoInput EXCEPT !.batch = g_in.batch])} :
           g_out' = [kind |-> "tick", gated |-> r.gated, fills |-> r.fills,
                     state |-> r.state]
    /\ UNCHANGED g_in

OGateProcess ==
    /\ GateProcess
    /\ UNCHANGED notGate
OGateTick ==
    /\ GateTick
    /\ UNCHANGED notGate

GateNext == OGateProcess \/ OGateTick

\* ------------------------------------------------------------------------
\* HealthCheck
\* ------------------------------------------------------------------------
\* what the wrapped check callable does: returns True, returns False, raises
CheckOutcomes == {"true", "false", "raise"}

NoRun == [n |-> 0, outcome |-> "none", slow |-> FALSE, ends |-> "none", ok |-> FALSE]

\* HealthCheck.__init__, lines 38-52, with the default max_failures
HealthDefault ==
    /\ hc_max_failures = 3
    /\ hc_failures = 0
    /\ hc_last_ok = 0 /\ hc_last_fail = 0
    /\ hc_log = <<>>
    /\ hc_last = NoRun

\* HealthCheck.__init__, lines 38-52
HealthInit ==
    /\ hc_max_failures \in 1..MaxMaxFailures
    /\ hc_failures = 0
    /\ hc_last_ok = 0 /\ hc_last_fail = 0
    /\ hc_log = <<>>
    /\ hc_last = NoRun

\* lines 58-68: ok after the call of check and the test of the elapsed time
RunOk(outcome, slow) == outcome = "true" /\ ~slow

\* a faulty counter that a success leaves as it is
FailuresNeverReset(ok, n) == IF ok THEN n ELSE n + 1

\* lines 70-75: the counter after a run
FailuresAfter(ok, n) == IF ok THEN 0 ELSE n + 1

\* a faulty run that lets the exception of the probe through
ProbeErrorPropagates(outcome) == IF outcome = "raise" THEN "raised" ELSE "returned"

\* lines 60-63: how the call ends; the exception of the probe is caught
RunEnds(outcome) == "returned"

\* HealthCheck.run, lines 56-77. time.time() at lines 71 and 74 is the number
\* of the call: the clock advances from one run to the next.
run(outcome, slow) ==
    LET now == hc_last.n + 1
        ok == RunOk(outcome, slow)
        ends == RunEnds(outcome)
    IN  /\ hc_last.n < MaxRuns
        /\ hc_last' = [n |-> now, outcome |-> outcome, slow |-> slow, ends |-> ends,
                       ok |-> ends = "returned" /\ ok]
        /\ IF ends = "returned"
           THEN /\ hc_failures' = FailuresAfter(ok, hc_failures)
                /\ hc_last_ok' = IF ok THEN now ELSE hc_last_ok
                /\ hc_last_fail' = IF ok THEN hc_last_fail ELSE now
                /\ hc_log' = Append(hc_log, ok)
           ELSE UNCHANGED <<hc_failures, hc_last_ok, hc_last_fail, hc_log>>
        /\ UNCHANGED hc_max_failures

\* HealthCheck.healthy, line 82
healthy == hc_failures < hc_max_failures

HRun ==
    /\ \E outcome \in CheckOutcomes, slow \in BOOLEAN : run(outcome, slow)
    /\ UNCHANGED notHealth

HealthNext == HRun

\* an orchestrator that is loaded, ticked, saved, replaced by a new one and restored
SnapshotNext ==
    \/ OLoadStart \/ OLoadStep \/ OTickPaper
    \/ OSaveSnapshot \/ OLoadSnapshot \/ ONewOrchestrator

\* ------------------------------------------------------------------------
\* Specifications
\* ------------------------------------------------------------------------
\* ------------------------------------------------------------------------
\* DarkPoolRouter (the router defined in tests/test_dark_pool_router.py, used
\* when engine.execution.dark_pool_router cannot be imported). Prices and fees
\* are counted in ticks.
\* ------------------------------------------------------------------------
OrderSides == {"buy", "sell"}

\* the Orders of lines 25-31, as far as route reads them: side and qty
RouterOrders == [side : OrderSides, qty : 0..MaxQty]

\* a Venue, lines 34-39; venues are named by their place in the list
VenueFields == [liquidity : 0..MaxLiquidity, price : 1..MaxPrice, fee : {0, 1}]
VenueLists ==
    UNION {{[i \in 1..n |-> [name |-> i, liquidity |-> f[i].liquidity,
                              price |-> f[i].price, fee |-> f[i].fee]] :
               f \in [1..n -> VenueFields]} : n \in 0..MaxVenues}

RouterDefault ==
    /\ dp_order = [side |-> "buy", qty |-> 0]
    /\ dp_venues = <<>>
    /\ dp_plans = <<>>
    /\ dp_routed = FALSE

\* lines 59-62: the sort key, v.price + v.fee for a buy and v.price - v.fee for
\* every other side
SortKey(v, side) == IF side = "buy" THEN v.price + v.fee ELSE v.price - v.fee

\* v put into the sorted list q behind every element whose key is not above its own
RECURSIVE Inserted(_, _, _)
Inserted(v, q, side) ==
    IF q = <<>> THEN <<v>>
    ELSE IF SortKey(Head(q), side) <= SortKey(v, side)
         THEN <<Head(q)>> \o Inserted(v, Tail(q), side)
         ELSE <<v>> \o q

\* lines 60 and 62: sorted(venues, key=...), ascending in the key for both sides
\* and stable (venues with equal keys keep the order of the list)
RECURSIVE sorted(_, _)
sorted(venues, side) ==
    IF venues = <<>> THEN <<>>
    ELSE Inserted(venues[Len(venues)],
                  sorted(SubSeq(venues, 1, Len(venues) - 1), side), side)

\* line 70: min(remaining, v.liquidity)
Take(remaining, v) == IF remaining <= v.liquidity THEN remaining ELSE v.liquidity

\* lines 67-78: the loop over the sorted venues
RECURSIVE Plans(_, _)
Plans(venues, remaining) ==
    IF venues = <<>> \/ remaining <= 0 THEN <<>>
    ELSE <<[venue |-> Head(venues).name, qty |-> Take(remaining, Head(venues)),
            price |-> Head(venues).price]>>
         \o Plans(Tail(venues), remaining - Take(remaining, Head(venues)))

\* DarkPoolRouter.route, lines 56-80
route(order, venues) == Plans(sorted(venues, order.side), order.qty)

\* router.route(order, venues) is called
RRoute ==
    /\ ~dp_routed
    /\ dp_plans' = route(dp_order, dp_venues)
    /\ dp_routed' = TRUE
    /\ UNCHANGED <<dp_order, dp_venues>>
    /\ UNCHANGED notRouter

RouterNext == RRoute

vars == <<omsVars, foVars, wdVars, orVars, snVars, brVars, gtVars, hcVars, wtVars, ffVars, stVars, ltVars, dpVars>>

\* one FailoverManager as constructed with the default max_failures (line 63) and
\* targets that all have a deactivate callback
FailoverDefault ==
    /\ FailoverInit
    /\ max_failures = 3
    /\ has_deactivate = [t \in Targets |-> TRUE]

\* watchdogs as constructed with the shortest timeout
WatchdogDefault ==
    /\ WatchdogInit
    /\ w_timeout = [w \in Watchdogs |-> 1]

\* the state after construction: every object as its constructor leaves it, the
\* FailoverManager and the watchdogs of the subsystems that stay idle with the
\* default settings
Init ==
    /\ OMSInit /\ FailoverDefault /\ WatchdogDefault /\ OrchestratorInit
    /\ SnapshotInit /\ RouterDefault /\ NoLateRounds /\ StartThreadsIdle /\ FailoverThreadsIdle /\ WatchdogThreadsIdle /\ HealthDefault /\ GateDefault
InitFailover ==
    /\ OMSInit /\ FailoverInit /\ WatchdogDefault /\ OrchestratorInit
    /\ SnapshotInit /\ RouterDefault /\ NoLateRounds /\ StartThreadsIdle /\ FailoverThreadsIdle /\ WatchdogThreadsIdle /\ HealthDefault /\ GateDefault
InitWatchdog ==
    /\ OMSInit /\ FailoverDefault /\ WatchdogInit /\ OrchestratorInit
    /\ SnapshotInit /\ RouterDefault /\ NoLateRounds /\ StartThreadsIdle /\ FailoverThreadsIdle /\ WatchdogThreadsIdle /\ HealthDefault /\ GateDefault
InitHealth ==
    /\ OMSInit /\ FailoverDefault /\ WatchdogDefault /\ OrchestratorInit
    /\ SnapshotInit /\ RouterDefault /\ NoLateRounds /\ StartThreadsIdle /\ FailoverThreadsIdle /\ WatchdogThreadsIdle /\ GateDefault /\ HealthInit
\* the gate's inputs drawn from GateInputs
InitGate ==
    /\ OMSInit /\ FailoverDefault /\ WatchdogDefault /\ OrchestratorInit
    /\ SnapshotInit /\ RouterDefault /\ NoLateRounds /\ StartThreadsIdle /\ FailoverThreadsIdle /\ WatchdogThreadsIdle /\ HealthDefault
    /\ g_in \in GateInputs
    /\ g_out = NoGateOutput

\* the order and the venue list drawn from RouterOrders and VenueLists
InitRouter ==
    /\ OMSInit /\ FailoverDefault /\ WatchdogDefault /\ OrchestratorInit
    /\ SnapshotInit /\ NoLateRounds /\ StartThreadsIdle /\ FailoverThreadsIdle /\ WatchdogThreadsIdle /\ HealthDefault /\ GateDefault
    /\ dp_order \in RouterOrders
    /\ dp_venues \in VenueLists
    /\ dp_plans = <<>>
    /\ dp_routed = FALSE

\* route as a function of its order and venue list
SpecRouter == InitRouter /\ [][RouterNext]_vars

\* the OMS alone, called sequentially
SpecOMS == Init /\ [][OMSNext]_vars

\* the OMS alone, submit called from several threads
SpecOMSThreads == Init /\ [][OMSThreadsNext]_vars

\* the FailoverManager alone
SpecFailover == InitFailover /\ [][FailoverNext]_vars

\* the watchdogs alone
SpecWatchdog == InitWatchdog /\ [][WatchdogNext]_vars

\* heartbeat() in a producer thread and check() in the poller thread
SpecWatchdogThreads == InitWatchdog /\ [][WatchdogThreadsNext]_vars

\* _failover() in the poller thread and in a caller's thread at once
SpecFailoverThreads == InitFailover /\ [][FailoverThreadsNext]_vars

\* start() of both managers called from several threads
SpecStartThreads == Init /\ [][StartThreadsNext]_vars

\* the OMS and a broker adapter that honours client-order-ids
SpecOMSBroker == Init /\ [][OMSBrokerNext]_vars

\* process_orders and tick_once as functions of their inputs
SpecGate == InitGate /\ [][GateNext]_vars

\* Both managers with their poller threads. The threads are daemon threads the
\* interpreter keeps scheduling: a loop test that can be made is made, a sleep
\* ends, and the probes and callbacks of a round return.
SpecManagers ==
    /\ Init /\ [][ManagersNext]_vars
    /\ WF_vars(FLoopTest) /\ WF_vars(FPoll)
    /\ WF_vars(WLoopTest) /\ WF_vars(WLoopRound)

\* one HealthCheck
SpecHealth == InitHealth /\ [][HealthNext]_vars

\* the Orchestrator alone
SpecOrchestrator == Init /\ [][OrchestratorNext]_vars

\* the Orchestrator and its snapshot file
SpecSnapshot == Init /\ [][SnapshotNext]_vars

\* ------------------------------------------------------------------------
\* Properties
\* ------------------------------------------------------------------------
InSeq(x, q) == \E i \in 1..Len(q) : q[i] = x

\* a step that is one tick_once call on handle h: every such call, alone or inside
\* tick_all, leaves its own (at, sid) pair in lastTick
TickOf(h) ==
    /\ lastTick'.sid = h
    /\ <<lastTick'.at, lastTick'.sid>> # <<lastTick.at, lastTick.sid>>

\* C1: the OMSOrders returned by submit calls made from several threads carry
\* pairwise-distinct internal ids, and each of them is in the order book: no
\* interleaving of the read of the counter and its increment allocates an id twice.
C1_ConcurrentSubmitsGetDistinctIds ==
    /\ \A i, j \in 1..Len(returned) : i # j => returned[i] # returned[j]
    /\ Cardinality({id \in OrderIds : orders[id].present}) = Len(returned)

\* C2: in every reachable state of a FailoverManager (here: one whose targets all
\* have a deactivate callback) exactly one target is activated and not
\* deactivated, and it is the target current() returns.
C2_ExactlyOneActiveTarget ==
    (\A t \in Targets : has_deactivate[t])
    => /\ Cardinality({t \in Targets : on[t]}) = 1
       /\ on[current]

C4_SingleFirePerSilence ==
    \A w \in Watchdogs :
        /\ fires_since_hb[w] = (IF late_checks[w] >= 1 THEN 1 ELSE 0)
        /\ fires[w] <= heartbeats[w] + 1

\* C4 happens: a watchdog fired, got a heartbeat, and fired once more in a second
\* silence during which check() ran at least twice after the timeout
C4_Witness ==
    \E w \in Watchdogs :
        /\ heartbeats[w] >= 1 /\ fires[w] = 2
        /\ late_checks[w] >= 2 /\ fires_since_hb[w] = 1

\* C5: a tick_once on a handle whose health is ERROR that completes without a
\* failing stage (the zero-proposal tick included) leaves the health RUNNING.
C5_SuccessfulTickLeavesRunning ==
    [][\A h \in Sids :
          (/\ TickOf(h)
           /\ state[h].health = "ERROR"
           /\ lastTick'.outcome \in {"ok", "zero"})
          => state'[h].health = "RUNNING"]_vars

\* C6: a tick_all call that has ended has ticked every handle once, whatever
\* happened while ticking any one of them: a failure in one handle's tick never
\* prevents the remaining handles from being ticked.
C6_TickAllTicksEveryHandle ==
    (lastAll.kind = "tick_all" /\ op.kind = "idle") => lastAll.done = lastAll.over

\* C7: a warmup_all call that has ended has called warmup on every handle once:
\* no failure arising while handling one handle (its warmup raising, its
\* on_error hook raising) prevents the warmup of the others.
C7_WarmupAllWarmsEveryHandle ==
    (lastAll.kind = "warmup" /\ op.kind = "idle") => lastAll.done = lastAll.over

\* C8: a load_from_registry call that has ended has skipped only the rows whose
\* handle could not be built: every other surviving row, before and after such
\* a row, has a handle and is in the list of created ids.
C8_LoadSkipsOnlyFailedRows ==
    (lastAll.kind = "load" /\ op.kind = "idle")
    => \A i \in 1..Len(lastAll.over) :
           ~InSeq(lastAll.over[i], lastAll.failed)
           => (InSeq(lastAll.over[i], lastAll.done) /\ exists[lastAll.over[i]])

\* C9: when mark_to_market or generate_signals raises inside tick_once, the
\* handle's health becomes ERROR, its error count grows by exactly one, an error
\* result is returned instead of an exception, no later stage of the tick runs,
\* and positions and trades_sent_today are unchanged by the tick.
C9_EarlyStageFailure ==
    [][\A h \in Sids :
          (TickOf(h) /\ lastTick'.failed \in {"mtm", "signals"})
          => /\ state'[h].health = "ERROR"
             /\ state'[h].errors = state[h].errors + 1
             /\ lastTick'.outcome = "error"
             /\ lastTick'.stages = (IF lastTick'.failed = "mtm" THEN <<"mtm">>
                                    ELSE <<"mtm", "signals">>)
             /\ lastTick'.routed = <<>> /\ lastTick'.fills = <<>>
             /\ state'[h].positions = state[h].positions
             /\ state'[h].trades_sent_today = state[h].trades_sent_today]_vars

\* C9 happens: generate_signals raised in a tick of a handle that had traded in
\* an earlier tick
C9_Witness ==
    /\ lastTick.failed = "signals" /\ lastTick.outcome = "error"
    /\ state[lastTick.sid].health = "ERROR"
    /\ state[lastTick.sid].errors >= 1
    /\ state[lastTick.sid].trades_sent_today > 0

\* C10: within one tick_once call the stages run in the order mark-to-market,
\* signals, proposal, gating, routing, fills: the tick changes positions or
\* trades_sent_today only after gating and routing, by the fills of routed
\* orders, and every routed order is one process_orders placed in approved.
C10_StagesInOrder ==
    [][\A h \in Sids :
          TickOf(h)
          => /\ \E k \in 0..7 : lastTick'.stages =
                    SubSeq(<<"mtm", "signals", "propose", "gate", "route", "fill",
                             "apply_fills">>, 1, k)
             /\ \A i \in 1..Len(lastTick'.routed) :
                    InSeq(lastTick'.routed[i], lastTick'.approved)
             /\ lastTick'.routed # <<>> => Len(lastTick'.stages) >= 5
             /\ \A i \in 1..Len(lastTick'.fills) :
                    \E j \in 1..Len(lastTick'.routed) :
                        /\ lastTick'.fills[i].ticker = lastTick'.routed[j].ticker
                        /\ lastTick'.fills[i].side = lastTick'.routed[j].side
             /\ (\/ state'[h].positions # state[h].positions
                 \/ state'[h].trades_sent_today # state[h].trades_sent_today)
                => (Len(lastTick'.stages) >= 6 /\ lastTick'.fills # <<>>)]_vars

\* C10 happens: a tick that routed the one order process_orders approved and
\* applied its fill
C10_Witness ==
    /\ lastTick.outcome = "ok" /\ Len(lastTick.stages) = 7
    /\ Len(lastTick.approved) = 1 /\ lastTick.routed = lastTick.approved
    /\ Len(lastTick.fills) = 1
    /\ state[lastTick.sid].trades_sent_today > 0

\* the unsigned notional of a list of fills, and their signed notional in base b
RECURSIVE FillTurnover(_)
FillTurnover(fills) ==
    IF fills = <<>> THEN 0
    ELSE (IF Head(fills).filled_usd < 0 THEN -Head(fills).filled_usd
          ELSE Head(fills).filled_usd) + FillTurnover(Tail(fills))
RECURSIVE FillNet(_, _)
FillNet(fills, b) ==
    IF fills = <<>> THEN 0
    ELSE (IF base_symbol(Head(fills).ticker) # b THEN 0
          ELSE IF Head(fills).side = "BUY" THEN Head(fills).filled_usd
          ELSE -Head(fills).filled_usd) + FillNet(Tail(fills), b)

\* C11: whatever the outcome of a tick_once call (normal return, error result,
\* exception), trades_sent_today grows by the sum of |filled_usd| over exactly
\* the fills the tick added to positions: no fill is in one and not the other.
C11_PositionsAndTurnoverTogether ==
    [][\A h \in Sids :
          TickOf(h)
          => /\ state'[h].trades_sent_today =
                    state[h].trades_sent_today + FillTurnover(lastTick'.fills)
             /\ \A b \in Bases :
                    state'[h].positions[b] =
                        state[h].positions[b] + FillNet(lastTick'.fills, b)]_vars

\* C11 happens: a tick ended by an exception in the loop over the fills after one
\* fill had been applied
C11_Witness ==
    /\ lastTick.outcome = "raised" /\ lastTick.failed = "fill"
    /\ Len(lastTick.fills) = 1 /\ Len(lastTick.routed) = 2
    /\ state[lastTick.sid].trades_sent_today > 0

\* a step that is a load_snapshot call
IsLoadSnapshot == snap_log' = Append(snap_log, "load")

\* C12: save_snapshot followed by load_snapshot gives every handle that exists at
\* the restore and was in the orchestrator at the save a StrategyState whose every
\* field (last_ts, health, errors, trades_sent_today, positions, nav, pnl_day,
\* pnl_cum) equals the saved one.
C12_SnapshotRoundTrip ==
    [][(IsLoadSnapshot /\ snapshot.written)
       => \A h \in Sids :
              (exists[h] /\ saved.has[h])
              => \A f \in StateFields : state'[h][f] = saved.st[h][f]]_vars

\* a state saved after a tick with a fill has been restored into a freshly
\* constructed orchestrator that loaded the registry again
C12_Witness ==
    /\ snap_log = <<"save", "new", "load">>
    /\ \E h \in Sids :
           /\ exists[h] /\ saved.has[h]
           /\ state[h] = saved.st[h]
           /\ state[h].health = "RUNNING"
           /\ state[h].trades_sent_today > 0
           /\ \E b \in Bases : state[h].positions[b] # 0

\* C13: load_snapshot changes nothing but the state of handles that already exist
\* and are in the snapshot: the set of handles, their order, and every handle's
\* spec and controller stay as they are, a handle missing from the snapshot keeps
\* its state, the file is left alone, and with no snapshot file nothing changes.
C13_LoadSnapshotFrame ==
    [][IsLoadSnapshot
       => /\ exists' = exists /\ horder' = horder
          /\ control_mode' = control_mode /\ allow_short' = allow_short
          /\ on_error' = on_error
          /\ snapshot' = snapshot
          /\ \A h \in Sids :
                 (~exists[h] \/ ~snapshot.written \/ h \notin DOMAIN snapshot.doc)
                 => state'[h] = state[h]]_vars

\* a snapshot holding a strategy id that has no handle has been loaded into an
\* orchestrator holding a handle that is not in the snapshot
C13_Witness ==
    /\ Len(snap_log) > 0 /\ snap_log[Len(snap_log)] = "load"
    /\ snapshot.written
    /\ \E h \in DOMAIN snapshot.doc : ~exists[h]
    /\ \E h \in Sids : exists[h] /\ h \notin DOMAIN snapshot.doc

\* C14: a recorded OMSOrder is never removed from the order book and keeps its
\* internal id (and its broker and broker order id); its status is changed only
\* by cancel and only to canceled, and a canceled order stays canceled, under any
\* sequence of submit, cancel and register_broker calls.
C14_OrderBookAppendOnly ==
    [][\A i \in OrderIds :
          orders[i].present
          => /\ orders'[i].present
             /\ orders[i].id = i /\ orders'[i].id = i
             /\ orders'[i].broker = orders[i].broker
             /\ orders'[i].broker_order_id = orders[i].broker_order_id
             /\ (orders'[i].status # orders[i].status
                    => lastCall'.op = "cancel" /\ orders'[i].status = "canceled")
             /\ (orders[i].status = "canceled" => orders'[i].status = "canceled")]_vars

\* an order has been canceled and a later submit recorded another order
C14_Witness ==
    /\ lastCall.op = "submit" /\ lastCall.result = "ok"
    /\ \E i, j \in OrderIds :
           /\ i < j
           /\ orders[i].present /\ orders[i].status = "canceled"
           /\ orders[j].present /\ orders[j].status # "canceled"

\* C15: OMS.submit for a broker name that is not registered fails with the lookup
\* error before anything else happens: the id counter, the order book and the
\* registered brokers are unchanged and no broker adapter is called.
C15_UnregisteredSubmitChangesNothing ==
    [][(lastCall'.op = "submit" /\ lastCall'.result = "lookup_error")
       => /\ oid' = oid
          /\ orders' = orders
          /\ brokers' = brokers
          /\ returned' = returned
          /\ submits' = submits
          /\ lastCall'.answer = "none"]_vars

\* a submit for an unregistered name has failed after an order was recorded
C15_Witness ==
    /\ lastCall.op = "submit" /\ lastCall.result = "lookup_error"
    /\ oid > 1
    /\ \E i \in OrderIds : orders[i].present

\* the results with which cancel returns false
CancelFalse == {"false_unknown", "false_no_broker_id", "false_broker"}

C17_SameCorrelationIsDuplicate ==
    \A i, j \in 1..Len(wire) :
        (i < j /\ wire[i].corr = wire[j].corr)
        => /\ wire[j].client_order_id = wire[i].client_order_id
           /\ wire[j].duplicate

\* how often x occurs in the sequence q
Count(q, x) == Cardinality({i \in 1..Len(q) : q[i] = x})

\* sub is q with some of its elements left out
RECURSIVE IsSubSeq(_, _)
IsSubSeq(sub, q) ==
    IF sub = <<>> THEN TRUE
    ELSE IF q = <<>> THEN FALSE
    ELSE IF Head(sub) = Head(q) THEN IsSubSeq(Tail(sub), Tail(q))
    ELSE IsSubSeq(sub, Tail(q))

BucketNames == {"approved", "queued", "rejected"}

\* C18: process_orders places every proposed order of a batch in exactly one of
\* approved, queued, rejected: no order is in two buckets, every order is in the
\* buckets as often as in the batch, and each bucket keeps the input order.
C18_BucketsPartitionBatch ==
    g_out.kind = "gated"
    => /\ \A b \in BucketNames : IsSubSeq(g_out.gated[b], g_in.batch)
       /\ \A x \in ProposedOrders :
              /\ Count(g_in.batch, x) = Count(g_out.gated.approved, x)
                                          + Count(g_out.gated.queued, x)
                                          + Count(g_out.gated.rejected, x)
              /\ \A b, c \in BucketNames :
                     (b # c /\ InSeq(x, g_out.gated[b])) => ~InSeq(x, g_out.gated[c])

\* a batch of two different orders has been gated into one bucket, and a batch
\* into two buckets
C18_Witness ==
    /\ g_out.kind = "gated"
    /\ Len(g_in.batch) = 2 /\ g_in.batch[1] # g_in.batch[2]
    /\ Len(g_out.gated.approved) = 2

\* the net position in its name that executing order o would give
PositionAfter(o) ==
    g_in.positions[base_symbol(o.ticker)] + Signed(o.side, o.trade_notional)

\* C19: with allow_short = false, no order whose execution would make the net
\* position in its name negative is in approved or in queued: it is rejected, in
\* every control mode.
C19_NoShortWithoutAllowShort ==
    (g_out.kind = "gated" /\ ~g_in.short)
    => \A i \in 1..Len(g_in.batch) :
           PositionAfter(g_in.batch[i]) < 0
           => /\ InSeq(g_in.batch[i], g_out.gated.rejected)
              /\ ~InSeq(g_in.batch[i], g_out.gated.approved)
              /\ ~InSeq(g_in.batch[i], g_out.gated.queued)

\* a sell that would take a position below zero has been rejected next to a buy
\* that was approved
C19_Witness ==
    /\ g_out.kind = "gated" /\ ~g_in.short
    /\ \E i \in 1..Len(g_in.batch) :
           /\ PositionAfter(g_in.batch[i]) < 0
           /\ InSeq(g_in.batch[i], g_out.gated.rejected)
    /\ Len(g_out.gated.approved) = 1

\* order o passes every risk check: with control mode AUTO it is approved
PassesRisk(o) == Bucket(o, GateState(g_in), "AUTO", g_in.short) = "approved"

\* C20: in MANUAL control mode every order that passes all risk checks is in
\* queued and approved is empty, and a tick of a MANUAL strategy changes neither
\* positions nor trades_sent_today.
C20_ManualQueuesEverything ==
    (g_in.cm = "MANUAL" /\ g_out.kind # "none")
    => /\ g_out.gated.approved = <<>>
       /\ \A i \in 1..Len(g_in.batch) :
              PassesRisk(g_in.batch[i]) <=> InSeq(g_in.batch[i], g_out.gated.queued)
       /\ g_out.kind = "tick"
              => /\ g_out.state.positions = g_in.positions
                 /\ g_out.state.trades_sent_today = g_in.traded

\* a MANUAL strategy has been ticked with a batch of two orders that pass every
\* risk check
C20_Witness ==
    /\ g_in.cm = "MANUAL" /\ g_out.kind = "tick"
    /\ Len(g_in.batch) = 2 /\ Len(g_out.gated.queued) = 2
    /\ g_out.state.health = "RUNNING"

\* the bucket process_orders gives order o when it is the only order proposed
AloneBucket(o) ==
    CHOOSE b \in BucketNames :
        process_orders(<<o>>, GateState(g_in), g_in.cm, g_in.short)[b] = <<o>>

\* C21: each order is checked against the committed position and turnover only,
\* never against the other orders of its batch: it lands in the bucket it would
\* land in alone; with a flat position and control mode AUTO a BUY of
\* max_name_usd and a following BUY on the same name are both approved.
C21_OrdersEvaluatedAgainstCommitted ==
    g_out.kind = "gated"
    => /\ \A i \in 1..Len(g_in.batch) :
              InSeq(g_in.batch[i], g_out.gated[AloneBucket(g_in.batch[i])])
       /\ (/\ g_in.cm = "AUTO" /\ g_in.traded = 0
           /\ \A b \in Bases : g_in.positions[b] = 0
           /\ Len(g_in.batch) = 2
           /\ \A i \in 1..2 : g_in.batch[i].side = "BUY"
           /\ g_in.batch[1].trade_notional = max_name_usd)
          => g_out.gated.approved = g_in.batch

\* a flat AUTO strategy has proposed a BUY of max_name_usd followed by a smaller
\* BUY on the same name, and both were approved
C21_Witness ==
    /\ g_out.kind = "gated" /\ g_in.cm = "AUTO" /\ g_in.traded = 0
    /\ \A b \in Bases : g_in.positions[b] = 0
    /\ Len(g_in.batch) = 2
    /\ g_in.batch[1].side = "BUY" /\ g_in.batch[1].trade_notional = max_name_usd
    /\ g_in.batch[2].side = "BUY" /\ g_in.batch[2].trade_notional < max_name_usd
    /\ g_in.batch[2].ticker = g_in.batch[1].ticker
    /\ g_out.gated.approved = g_in.batch

\* the number of failed runs at the end of log since its last successful run
RECURSIVE TrailingFailures(_)
TrailingFailures(log) ==
    IF log = <<>> \/ log[Len(log)] THEN 0
    ELSE 1 + TrailingFailures(SubSeq(log, 1, Len(log) - 1))

\* C22: after any sequence of run() calls, failures is the number of failed runs
\* since the most recent successful run, and healthy() is true exactly when that
\* number is below max_failures.
C22_FailuresCountConsecutive ==
    /\ hc_failures = TrailingFailures(hc_log)
    /\ healthy <=> TrailingFailures(hc_log) < hc_max_failures

\* a check that had become unhealthy is healthy again after a successful run and
\* one more failure
C22_Witness ==
    /\ \E i \in 1..Len(hc_log) :
           /\ i > hc_max_failures
           /\ \A j \in 1..(i - 1) : ~hc_log[j]
           /\ hc_log[i]
           /\ Len(hc_log) = i + 1 /\ ~hc_log[i + 1]
    /\ hc_failures = 1 /\ healthy /\ hc_max_failures > 1

\* the calls the poller has made on the targets
TargetCalls == <<polls, activate_calls, deactivate_calls, on, active_index, fail_counts>>

\* C23: a failover in which no other target's health probe passes ends with the
\* FailoverError, which ends the poller thread; from then on the poller makes no
\* health probe, no activation and no deactivation.
C23_TerminalAfterFailoverError ==
    [][/\ (/\ lastPoll'.failover
           /\ \A t \in Targets \ {lastPoll'.target} : lastPoll'.probes[t] # "ok")
          => (lastPoll'.error /\ f_thread' = "dead")
       /\ f_thread = "dead"
          => (f_thread' = "dead" /\ TargetCalls' = TargetCalls /\ lastPoll' = lastPoll)
      ]_vars

\* the poller has ended with the FailoverError while polls were left, and stop()
\* was called
C23_Witness ==
    /\ f_thread = "dead" /\ lastPoll.failover /\ lastPoll.error
    /\ \A t \in Targets \ {lastPoll.target} : lastPoll.probes[t] # "ok"
    /\ polls < MaxPolls
    /\ f_stop

\* a poller thread that is running its loop
Looping == {"test", "sleep"}

C25_HeartbeatHoldsUntilSilence ==
    \A w \in Watchdogs :
        (heartbeats[w] > 0 /\ hb_wd # w /\ late_checks[w] = 0)
            => (~triggered[w] /\ fires_since_hb[w] = 0)

\* C26: for an order that passes every risk check the control mode alone fixes
\* the bucket: AUTO approves it; SEMI_AUTO queues it when its notional is above
\* the single-order threshold and approves it otherwise; this is so in every run
\* mode (LIVE, PAPER, SIM).
C26_ControlModeFixesBucket ==
    g_out.kind = "gated"
    => \A rm \in RunModes : \A i \in 1..Len(g_in.batch) :
           LET o == g_in.batch[i]
               expected == IF g_in.cm = "SEMI_AUTO"
                              /\ o.trade_notional > semi_auto_threshold
                           THEN "queued" ELSE "approved"
           IN  (g_in.rm = rm /\ g_in.cm \in {"AUTO", "SEMI_AUTO"} /\ PassesRisk(o))
               => \A b \in BucketNames :
                      InSeq(o, g_out.gated[b]) <=> b = expected

\* a LIVE strategy in SEMI_AUTO control mode has proposed two orders that pass
\* every risk check, one above the threshold and one not: the first is queued,
\* the second approved
C26_Witness ==
    /\ g_out.kind = "gated" /\ g_in.rm = "LIVE" /\ g_in.cm = "SEMI_AUTO"
    /\ Len(g_in.batch) = 2
    /\ \A i \in 1..2 : PassesRisk(g_in.batch[i])
    /\ g_in.batch[1].trade_notional > semi_auto_threshold
    /\ g_in.batch[2].trade_notional <= semi_auto_threshold
    /\ g_out.gated.queued = <<g_in.batch[1]>>
    /\ g_out.gated.approved = <<g_in.batch[2]>>

\* C27: a poll probes the target that is active when the poll starts, and no other
\* target unless the poll fails over; the active target changes on a poll only
\* if that poll and the max_failures - 1 polls immediately before it all found
\* that target unhealthy (a probe that raises counts as unhealthy); a healthy
\* poll resets the active target's failure count to zero and changes nothing else.
C27_SwitchOnlyAfterConsecutiveFailures ==
    [][polls' = polls + 1
       => /\ lastPoll'.target = current
          /\ ~lastPoll'.failover
                => (/\ lastPoll'.probes = NoProbes
                    /\ <<current, activate_calls, deactivate_calls>>'
                           = <<current, activate_calls, deactivate_calls>>)
          /\ current' # current
                => (/\ lastPoll'.failover /\ ~lastPoll'.healthy
                    /\ streak' >= max_failures
                    /\ fail_counts[current] + 1 >= max_failures)
          /\ lastPoll'.healthy
                => (streak' = 0 /\ fail_counts'[current] = 0)
      ]_vars

\* with max_failures = 2 the fourth poll switched from target 1 to target 2:
\* the first two polls were not both unhealthy, so a healthy poll had reset the
\* count, and the switch came with the second unhealthy poll in a row
C27_Witness ==
    /\ max_failures = 2 /\ polls = 4
    /\ lastPoll.target = 1 /\ lastPoll.failover /\ current = 2
    /\ streak = 2 /\ activate_calls[2] = 1
    /\ fail_counts[2] = 0

\* the first target in list order, other than old, whose probe passes (0 if none)
FirstPassing(old, probes) ==
    LET passing == {t \in Targets \ {old} : probes[t] = "ok"}
    IN  IF passing = {} THEN 0
        ELSE CHOOSE t \in passing : \A u \in passing : t <= u

\* C28: a poll that triggers a failover calls the current target's deactivate
\* (if it has one); the first target in list order, other than the current one,
\* whose health probe passes (a probe that raises counts as failing) becomes
\* active and its failure count is zero; activate is called once on that target
\* and on no other.
C28_FirstPassingTargetActivated ==
    [][(polls' = polls + 1 /\ lastPoll'.failover)
       => LET old == lastPoll'.target
              first == FirstPassing(old, lastPoll'.probes)
          IN  /\ old = current
              /\ has_deactivate[old]
                    => deactivate_calls'[old] = deactivate_calls[old] + 1
              /\ first # 0 => (current' = first /\ fail_counts'[first] = 0)
              /\ \A t \in Targets :
                     activate_calls'[t] =
                         activate_calls[t] + (IF t = first THEN 1 ELSE 0)
      ]_vars

\* the target of the most recent activate call
LastActivated ==
    LET acts == {k \in 1..Len(call_log) : call_log[k].op = "activate"}
    IN  call_log[CHOOSE k \in acts : \A j \in acts : j <= k].target

\* C29: when _failover runs in the poller thread and in another thread at the
\* same time and both calls have switched the target (every target having a
\* deactivate callback), current() is the target activated last; no activate
\* call directly follows another activate call; and no deactivate call directly
\* follows a deactivate call of the same target.
C29_ConcurrentFailoverIsSerialized ==
    (/\ \A t \in FThreads : ff_pc[t] = "returned"
     /\ \A g \in Targets : has_deactivate[g])
    => /\ current = LastActivated
       /\ \A k \in 1..(Len(call_log) - 1) :
             /\ ~(call_log[k].op = "activate" /\ call_log[k + 1].op = "activate")
             /\ ~(/\ call_log[k].op = "deactivate"
                  /\ call_log[k + 1].op = "deactivate"
                  /\ call_log[k].target = call_log[k + 1].target)

\* C30: however many times and from however many threads start() is called, each
\* manager has at most one poller thread running.
C30_AtMostOnePoller ==
    \A m \in Managers : Cardinality(st_running[m]) <= 1

\* C31: run() never raises. A probe that throws is recorded as a failed check:
\* run returns false, failures grows by one, last_fail is set to the time of the
\* run and last_ok is unchanged; a probe that took longer than timeout is
\* recorded in the same way even when it returned true.
C31_ProbeErrorIsFailedCheck ==
    [][hc_last'.n = hc_last.n + 1
       => /\ hc_last'.ends = "returned"
          /\ (hc_last'.outcome = "raise" \/ hc_last'.slow)
                => /\ ~hc_last'.ok
                   /\ hc_log' = Append(hc_log, FALSE)
                   /\ hc_failures' = hc_failures + 1
                   /\ hc_last_fail' = hc_last'.n
                   /\ hc_last_ok' = hc_last_ok
      ]_vars

\* after a successful run two runs failed, the second with a probe that returned
\* true too late, and both were recorded as failures
C31_Witness ==
    /\ hc_last.outcome = "true" /\ hc_last.slow /\ ~hc_last.ok
    /\ hc_last_ok >= 1 /\ hc_last_ok < hc_last_fail
    /\ hc_failures = 2 /\ hc_last_fail = hc_last.n

\* the health values and the moves between them that the state machine allows
HealthValues == {"INIT", "WARMED", "RUNNING", "ERROR"}
HealthMoves ==
    {<<"INIT", "WARMED">>, <<"WARMED", "RUNNING">>, <<"ERROR", "RUNNING">>}
        \cup {<<v, "ERROR">> : v \in HealthValues}

\* C32: the health of a handle is one of INIT, WARMED, RUNNING, ERROR and every
\* step either leaves it alone or moves it from INIT to WARMED, from WARMED to
\* RUNNING, from any value to ERROR or from ERROR to RUNNING: never from INIT to
\* RUNNING, never from RUNNING back to WARMED or INIT.
C32_HealthFollowsStateMachine ==
    [][\A h \in Sids :
          /\ state'[h].health \in HealthValues
          /\ \/ state'[h].health = state[h].health
             \/ <<state[h].health, state'[h].health>> \in HealthMoves
      ]_vars

RECURSIVE OrderTurnover(_)
OrderTurnover(batch) ==
    IF batch = <<>> THEN 0
    ELSE Head(batch).trade_notional + OrderTurnover(Tail(batch))
RECURSIVE OrderNet(_, _)
OrderNet(batch, b) ==
    IF batch = <<>> THEN 0
    ELSE (IF base_symbol(Head(batch).ticker) # b THEN 0
          ELSE IF Head(batch).side = "BUY" THEN Head(batch).trade_notional
          ELSE -Head(batch).trade_notional) + OrderNet(Tail(batch), b)

\* C34: in a tick without router every approved order, and no other, is filled
\* in that tick at its proposed notional: there is one fill per approved order,
\* in order, with its ticker, side and notional; each BUY raises and each SELL
\* lowers the position of its base symbol by the notional, and trades_sent_today
\* grows by the sum of the notionals.
C34_PaperFillsEveryApprovedOrder ==
    g_out.kind = "tick"
    => LET approved == g_out.gated.approved
       IN  /\ Len(g_out.fills) = Len(approved)
           /\ \A i \in 1..Len(approved) :
                  /\ g_out.fills[i].ticker = approved[i].ticker
                  /\ g_out.fills[i].side = approved[i].side
                  /\ g_out.fills[i].filled_usd = approved[i].trade_notional
           /\ \A b \in Bases :
                  g_out.state.positions[b] = g_in.positions[b] + OrderNet(approved, b)
           /\ g_out.state.trades_sent_today = g_in.traded + OrderTurnover(approved)

\* a tick without router approved a BUY and a SELL out of a batch of two and
\* filled both: the turnover grew by both notionals and the position by their
\* difference
C34_Witness ==
    /\ g_out.kind = "tick" /\ Len(g_out.fills) = 2
    /\ g_out.fills[1].side = "BUY" /\ g_out.fills[2].side = "SELL"
    /\ g_out.fills[1].filled_usd = 2 /\ g_out.fills[2].filled_usd = 1
    /\ g_out.state.trades_sent_today = g_in.traded + 3
    /\ g_out.state.positions[<<"EQ", "AAA">>] = g_in.positions[<<"EQ", "AAA">>] + 1

WithinLimits(pos, traded) ==
    /\ \A b \in Bases : pos[b] <= max_name_usd /\ -pos[b] <= max_name_usd
    /\ SumAbs(pos, Bases) <= max_gross_usd
    /\ traded <= max_daily_turnover_usd

\* C36: with at most one order proposed per tick, fills from the paper-fill
\* fallback and control mode AUTO, the limits hold after any sequence of ticks:
\* they hold of a new handle's state, and a tick that starts within the limits
\* ends within them (every absolute position at most max_name_usd, their sum at
\* most max_gross_usd, trades_sent_today at most max_daily_turnover_usd).
C36_SingleOrderTicksKeepLimits ==
    /\ WithinLimits(NewState.positions, NewState.trades_sent_today)
    /\ (/\ g_out.kind = "tick" /\ g_in.cm = "AUTO" /\ Len(g_in.batch) <= 1
        /\ WithinLimits(g_in.positions, g_in.traded))
       => WithinLimits(g_out.state.positions, g_out.state.trades_sent_today)

\* an AUTO tick filled its one order and brought both the position in the name
\* and the turnover exactly to their limits
C36_Witness ==
    /\ g_out.kind = "tick" /\ g_in.cm = "AUTO" /\ Len(g_in.batch) = 1
    /\ WithinLimits(g_in.positions, g_in.traded)
    /\ Len(g_out.fills) = 1
    /\ g_out.state.positions[<<"EQ", "AAA">>] = max_name_usd
    /\ g_out.state.trades_sent_today = max_daily_turnover_usd

\* C37: across any sequential series of OMS.submit calls no internal id is handed
\* to two submissions. A submission that reaches the broker takes the value of
\* the counter as its id and leaves the counter one higher, whether the broker
\* call returns or raises; one whose broker call raises records no order; the
\* counter never goes down; every id in the order book is strictly below the
\* counter, and the ids of the recorded orders increase in submission order.
C37_IdsNeverReused ==
    /\ [](/\ \A i \in OrderIds : orders[i].present => orders[i].id = i /\ i < oid
          /\ \A j, k \in 1..Len(returned) : j < k => returned[j] < returned[k])
    /\ [][/\ oid' >= oid
          /\ submits' = submits + 1
             => /\ lastCall'.op = "submit" /\ lastCall'.arg = oid
                /\ oid' = oid + 1
                /\ ~orders[oid].present
                /\ lastCall'.result = "raised"
                   => orders' = orders /\ returned' = returned
                /\ lastCall'.result # "raised"
                   => orders'[oid].present /\ returned' = Append(returned, oid)]_vars

\* a submission whose broker call raised lies between two recorded ones: the
\* book holds ids 1 and 3, id 2 is in no order, and the counter is at 4
C37_Witness ==
    /\ returned = <<1, 3>>
    /\ orders[1].present /\ ~orders[2].present /\ orders[3].present
    /\ oid = 4

\* C38: register_broker leaves the orders in the order book unchanged; a submit
\* that reaches a broker goes to the adapter registered under the name when it is
\* called, so after an overwrite to the new adapter only; and a cancel that
\* reaches a broker goes to the adapter registered under the order's broker name
\* when cancel is called, with the broker order id recorded at submission, also
\* when the order was submitted through an adapter that has since been replaced.
C38_OverwriteRedirectsSubmitAndCancel ==
    [][/\ lastCall'.op = "register_broker" => orders' = orders
       /\ submits' = submits + 1
          => /\ \E name \in RegisteredNames : lastCall'.adapter = brokers[name]
             /\ lastCall'.result = "ok"
                => /\ orders'[oid].via = brokers[orders'[oid].broker]
                   /\ lastCall'.adapter = orders'[oid].via
       /\ (lastCall'.op = "cancel" /\ lastCall'.answer # "none")
          => \E id \in {lastCall'.arg} :
                /\ lastCall'.adapter = brokers[orders[id].broker]
                /\ lastCall'.sent = orders[id].broker_order_id
                /\ lastCall'.sent # 0]_vars

\* an order submitted through adapter 1 has been canceled after adapter 2 was
\* registered under its broker name: cancel_order of adapter 2 got the broker
\* order id adapter 1 issued, and another order went to adapter 2
C38_Witness ==
    /\ lastCall.op = "cancel" /\ lastCall.result = "true"
    /\ orders[lastCall.arg].via = 1
    /\ brokers[orders[lastCall.arg].broker] = 2
    /\ lastCall.adapter = 2
    /\ lastCall.sent = orders[lastCall.arg].broker_order_id
    /\ \E j \in OrderIds : orders[j].present /\ orders[j].via = 2 /\ j > lastCall.arg

\* C39: once stop() has set the stop flag, the poller of the FailoverManager and
\* of the WatchdogManager runs at most one further round, the one whose sleep was
\* in progress when the flag was set: a round that runs with the flag set starts
\* from the sleep and leaves the thread at the loop test (or ended by a
\* FailoverError), after it no sleep begins, and the loop exits (stated for the
\* states in which the model lets the thread finish the round it is in).
C39_AtMostOneRoundAfterStop ==
    /\ [](/\ f_late_rounds <= 1 /\ w_late_rounds <= 1
          /\ f_late_rounds = 1 => f_stop /\ f_thread \in {"test", "exited", "dead"}
          /\ w_late_rounds = 1 => w_stop /\ w_thread \in {"test", "exited"})
    /\ [][/\ f_late_rounds' # f_late_rounds
             => f_thread = "sleep" /\ f_thread' \in {"test", "dead"}
          /\ w_late_rounds' # w_late_rounds
             => w_thread = "sleep" /\ w_thread' = "test"
          /\ (f_stop /\ f_thread # "sleep") => f_thread' # "sleep"
          /\ (w_stop /\ w_thread # "sleep") => w_thread' # "sleep"]_vars
    /\ (f_late_rounds = 1) ~> (f_thread \in {"exited", "dead"})
    /\ (w_late_rounds = 1) ~> (w_thread = "exited")

\* after stop() both pollers ran one more round and then left their loops; the
\* FailoverManager's round probed the active target, found the failure that made
\* the count reach max_failures, and failed over to the other target
C39_Witness ==
    /\ f_stop /\ f_late_rounds = 1 /\ f_thread = "exited"
    /\ lastPoll.failover /\ active_index # 1
    /\ w_stop /\ w_late_rounds = 1 /\ w_thread = "exited"

\* the sum of the planned quantities, and of the venues' liquidity
RECURSIVE PlannedQty(_)
PlannedQty(plans) == IF plans = <<>> THEN 0 ELSE Head(plans).qty + PlannedQty(Tail(plans))
RECURSIVE TotalLiquidity(_)
TotalLiquidity(venues) ==
    IF venues = <<>> THEN 0 ELSE Head(venues).liquidity + TotalLiquidity(Tail(venues))

\* venue a has a net price at least as good as venue b for an order of this side:
\* not above it (price plus fee) for a buy, not below it (price minus fee) for a
\* sell
NoWorse(a, b, side) ==
    IF side = "buy" THEN a.price + a.fee <= b.price + b.fee
    ELSE a.price - a.fee >= b.price - b.fee

\* C40: for every order and venue list the plan takes from no venue more than its
\* liquidity, the planned quantities sum to min(order quantity, total liquidity),
\* the venues are used in best-net-price order (ascending price plus fee for a
\* buy, descending price minus fee for a sell: each planned venue is no worse than
\* the one planned after it and than every venue left out), and the plan is empty
\* when there are no venues or the order quantity is zero.
C40_PlanRespectsLiquidityAndPriceOrder ==
    dp_routed
    => /\ \A i \in 1..Len(dp_plans) :
              /\ dp_plans[i].venue \in 1..Len(dp_venues)
              /\ dp_plans[i].qty <= dp_venues[dp_plans[i].venue].liquidity
       /\ PlannedQty(dp_plans)
             = (IF dp_order.qty <= TotalLiquidity(dp_venues) THEN dp_order.qty
                ELSE TotalLiquidity(dp_venues))
       /\ \A i, j \in 1..Len(dp_plans) :
              i < j => NoWorse(dp_venues[dp_plans[i].venue], dp_venues[dp_plans[j].venue],
                               dp_order.side)
       /\ \A i \in 1..Len(dp_plans), k \in 1..Len(dp_venues) :
              (\A j \in 1..Len(dp_plans) : dp_plans[j].venue # k)
              => NoWorse(dp_venues[dp_plans[i].venue], dp_venues[k], dp_order.side)
       /\ (dp_venues = <<>> \/ dp_order.qty = 0) => dp_plans = <<>>
====
